---- MODULE Spec2Model ----
(***************************************************************************)
(* A model of the sandbox lifecycle controller of k7                       *)
(* (src/src/k7/core/core.py, class K7Core).                                *)
(*                                                                         *)
(* The cluster is four stores of named objects (workloads, secrets, egress *)
(* policies, ingress-deny policies).  A call of create_sandbox is a        *)
(* sequential process; every cluster API round trip is one atomic step at  *)
(* the API server.  Each call keeps an ordered trace of what it did: the   *)
(* progress events handed to the sink and the cluster calls with their     *)
(* answers.                                                                *)
(***************************************************************************)
EXTENDS Integers, Sequences, FiniteSets, TLC

VARIABLES
    deployments,   \* set of workload objects in the cluster
    secrets,       \* set of secret objects
    egressPols,    \* set of egress network policies  <name>-netpol
    ingressPols,   \* set of ingress-deny policies    <name>-deny-ingress
    cfg,           \* cfg[p]: the SandboxConfig of call p
    pc,            \* pc[p]: where call p stands in create_sandbox
    trace,         \* trace[p]: events emitted and cluster calls made, in order
    result,        \* result[p]: the OperationResult returned
    elapsed,       \* elapsed[p]: time.time() - start_time of the init-wait loop
    waitEnd,       \* waitEnd[p]: how the init-wait loop was left
    progress_callback,  \* progress_callback[p]: the sink handed to create_sandbox
    locals,        \* locals[p]: the client cache of p's K7Core instance and the
                   \*   local variables of the call p is in
    api_keys,      \* the API-key store file: key hash -> entry
    now,           \* int(time.time()) as the API server reads it
    container      \* the sandbox container: its shell, its files, its probe

vars == <<deployments, secrets, egressPols, ingressPols,
          cfg, pc, trace, result, elapsed, waitEnd, progress_callback, locals,
          api_keys, now, container>>

clusterVars == <<deployments, secrets, egressPols, ingressPols>>

\* What lies outside the cluster and the calls of K7Core: the API server's
\* key store and clock, and the inside of a sandbox container.
hostVars == <<api_keys, now, container>>

(***************************************************************************)
(* Bounds of the model and constants of the program.                       *)
(***************************************************************************)
MaxCidrs == 2

TimeoutSeconds == 300
PollSeconds == 2
DnsPort == 53

\* The two concurrent calls of create_sandbox.
Procs == {"first", "second"}
Cidrs == {"10.0.0.0/8", "192.168.0.0/16"}

\* The creator recorded on an object that was in the cluster before any call.
Preexisting == "leftover"

\* Clock readings of the init-wait loop that the model explores: the start
\* and the readings around the ceiling.
TimePoints ==
    {0, TimeoutSeconds - PollSeconds, TimeoutSeconds, TimeoutSeconds + PollSeconds}

(***************************************************************************)
(* Sequence helpers.                                                       *)
(***************************************************************************)
RECURSIVE SeqsUpTo(_, _)
SeqsUpTo(S, n) ==
    IF n = 0 THEN {<<>>}
    ELSE LET shorter == SeqsUpTo(S, n - 1)
         IN  shorter \cup {Append(s, x) : s \in shorter, x \in S}

Range(s) == {s[i] : i \in 1..Len(s)}

Last(s) == s[Len(s)]

(***************************************************************************)
(* Resource quantities.  A quantity string is a sequence of characters.    *)
(***************************************************************************)
Digits == {"0", "1", "2", "3", "4", "5", "6", "7", "8", "9"}

DigitVal(c) ==
    CASE c = "0" -> 0 [] c = "1" -> 1 [] c = "2" -> 2 [] c = "3" -> 3
      [] c = "4" -> 4 [] c = "5" -> 5 [] c = "6" -> 6 [] c = "7" -> 7
      [] c = "8" -> 8 [] c = "9" -> 9

\* str.lower() on the characters quantity suffixes are written with
Lower(c) ==
    CASE c = "K" -> "k" [] c = "M" -> "m" [] c = "G" -> "g" [] c = "I" -> "i"
      [] c = "B" -> "b" [] OTHER -> c

\* str.strip(): leading and trailing blanks removed
RECURSIVE StripLeft(_)
StripLeft(s) ==
    IF s # <<>> /\ Head(s) = " " THEN StripLeft(Tail(s)) ELSE s

RECURSIVE StripRight(_)
StripRight(s) ==
    IF s # <<>> /\ Last(s) = " " THEN StripRight(SubSeq(s, 1, Len(s) - 1)) ELSE s

Strip(s) == StripRight(StripLeft(s))

EndsWith(s, suffix) ==
    /\ Len(s) >= Len(suffix)
    /\ SubSeq(s, Len(s) - Len(suffix) + 1, Len(s)) = suffix

DropLast(s, k) == SubSeq(s, 1, Len(s) - k)

RECURSIVE DigitsValue(_)
DigitsValue(s) ==
    IF s = <<>> THEN 0 ELSE 10 * DigitsValue(DropLast(s, 1)) + DigitVal(Last(s))

\* The outcome of a Python computation that may raise ValueError.
Returned(v) == [raised |-> FALSE, val |-> v]
Raised == [raised |-> TRUE, val |-> 0]

\* Python int(str): blanks around, an optional sign, then decimal digits.
PyInt(str) ==
    LET s == Strip(str)
        signed == s # <<>> /\ Head(s) \in {"-", "+"}
        body == IF signed THEN Tail(s) ELSE s
    IN  IF body = <<>> \/ \E i \in 1..Len(body) : body[i] \notin Digits
        THEN Raised
        ELSE Returned(IF signed /\ Head(s) = "-"
                      THEN 0 - DigitsValue(body) ELSE DigitsValue(body))

\* Python floor division by a positive number
FloorDiv(a, b) == IF a >= 0 THEN a \div b ELSE 0 - ((b - 1 - a) \div b)

ApplyTo(r, F(_)) == IF r.raised THEN Raised ELSE Returned(F(r.val))

TimesGi(v) == v * 1024
TimesMi(v) == v
TimesKi(v) == FloorDiv(v, 1024)

_parse_resource_value(value) ==
    IF value = <<>> THEN Returned(0)
    ELSE LET v == [i \in 1..Len(Strip(value)) |-> Lower(Strip(value)[i])]
         IN  IF EndsWith(v, <<"m">>) THEN PyInt(DropLast(v, 1))
             ELSE IF EndsWith(v, <<"g", "i">>) THEN ApplyTo(PyInt(DropLast(v, 2)), TimesGi)
             ELSE IF EndsWith(v, <<"m", "i">>) THEN ApplyTo(PyInt(DropLast(v, 2)), TimesMi)
             ELSE IF EndsWith(v, <<"k", "i">>) THEN ApplyTo(PyInt(DropLast(v, 2)), TimesKi)
             ELSE IF PyInt(v).raised THEN Returned(0) ELSE PyInt(v)

CheckedKeys == {"cpu", "memory", "ephemeral-storage"}

\* limits is the dict in insertion order: a sequence of <<key, value>> pairs.
\* The loop returns False at the first checked key whose value is not
\* positive, and a ValueError of int() leaves it at once.
RECURSIVE _validate_limits(_)
_validate_limits(limits) ==
    IF limits = <<>> THEN Returned(TRUE)
    ELSE LET key == Head(limits)[1]
             parsed == _parse_resource_value(Head(limits)[2])
         IN  IF key \notin CheckedKeys THEN _validate_limits(Tail(limits))
             ELSE IF parsed.raised THEN Raised
             ELSE IF parsed.val <= 0 THEN Returned(FALSE)
             ELSE _validate_limits(Tail(limits))

(***************************************************************************)
(* The env file.  A file is a sequence of lines, a line a sequence of      *)
(* characters; the parsed variables are a set of <<key, value>> pairs in   *)
(* which a later line for a key replaces an earlier one.                   *)
(***************************************************************************)
RECURSIVE StripCharLeft(_, _)
StripCharLeft(s, c) ==
    IF s # <<>> /\ Head(s) = c THEN StripCharLeft(Tail(s), c) ELSE s

RECURSIVE StripCharRight(_, _)
StripCharRight(s, c) ==
    IF s # <<>> /\ Last(s) = c THEN StripCharRight(DropLast(s, 1), c) ELSE s

\* str.strip(c) for a single character c
StripChar(s, c) == StripCharRight(StripCharLeft(s, c), c)

\* (mutant) the line split at its last "="
FirstEq_last(s) == CHOOSE i \in 1..Len(s) : s[i] = "=" /\ \A j \in (i + 1)..Len(s) : s[j] # "="

\* the index of the first "=" of a line that holds one
FirstEq(s) == CHOOSE i \in 1..Len(s) : s[i] = "=" /\ \A j \in 1..(i - 1) : s[j] # "="

\* One line of the file: the pair it defines, or none when the line is skipped.
ParseEnvLine(line) ==
    LET stripped == Strip(line)
    IN  IF stripped = <<>> \/ Head(stripped) = "#" \/ "=" \notin Range(stripped)
        THEN {}
        ELSE LET i == FirstEq(stripped)
                 key == Strip(SubSeq(stripped, 1, i - 1))
                 value == StripChar(StripChar(
                              Strip(SubSeq(stripped, i + 1, Len(stripped))),
                              "\""), "'")
             IN  IF key # <<>> THEN {<<key, value>>} ELSE {}

RECURSIVE ParseEnv(_)
ParseEnv(lines) ==
    IF lines = <<>> THEN {}
    ELSE LET before == ParseEnv(DropLast(lines, 1))
             this == ParseEnvLine(Last(lines))
         IN  {kv \in before : \A n \in this : n[1] # kv[1]} \cup this

(***************************************************************************)
(* SandboxConfig values.                                                   *)
(***************************************************************************)
\* Optional[List[str]]: None, or a list
None == [some |-> FALSE, list |-> <<>>]
Some(l) == [some |-> TRUE, list |-> l]

Whitelists == {None} \cup {Some(l) : l \in SeqsUpTo(Cidrs, MaxCidrs)}

\* env_file: no path given, a path that names no file, or a file's lines
NoEnvFile == [given |-> FALSE, exists |-> FALSE, lines |-> <<>>]
MissingEnvFile == [given |-> TRUE, exists |-> FALSE, lines |-> <<>>]
EnvFileOf(lines) == [given |-> TRUE, exists |-> TRUE, lines |-> lines]

GoodEnvFile == EnvFileOf(<< <<"K", "=", "v">> >>)
CommentOnlyEnvFile == EnvFileOf(<< <<"#", "K", "=", "v">>, <<>> >>)

NoLimits == <<>>
GoodLimits == << <<"cpu", <<"5", "0", "0", "m">> >>, <<"memory", <<"1", "G", "i">> >> >>
ZeroLimits == << <<"cpu", <<"0">> >> >>
BadSuffixLimits == << <<"memory", <<"x", "M", "i">> >> >>

NoScript == ""
SomeScript == "apk add --no-cache curl"

SandboxConfig(name, env_file, egress_whitelist, limits, before_script) ==
    [name |-> name, env_file |-> env_file, egress_whitelist |-> egress_whitelist,
     limits |-> limits, before_script |-> before_script]

\* Specs that pass validation: every whitelist, with and without a script.
ValidShapes ==
    {SandboxConfig("a", GoodEnvFile, w, GoodLimits, s) :
        w \in Whitelists, s \in {NoScript, SomeScript}}

\* The minimal spec, and specs that differ from a full one in the field that
\* skips or fails a step.
EdgeShapes ==
    {SandboxConfig("a", NoEnvFile, None, NoLimits, NoScript)}
    \cup {SandboxConfig("a", GoodEnvFile, Some(<<>>), l, SomeScript) :
        l \in {NoLimits, ZeroLimits, BadSuffixLimits}}
    \cup {SandboxConfig("a", e, Some(<<>>), GoodLimits, SomeScript) :
        e \in {NoEnvFile, MissingEnvFile, CommentOnlyEnvFile}}

\* What the second, concurrent call asks for, and under which name.
RivalShapes ==
    {SandboxConfig("a", NoEnvFile, None, NoLimits, NoScript),
     SandboxConfig("a", GoodEnvFile, Some(<<>>), GoodLimits, SomeScript),
     SandboxConfig("a", NoEnvFile, None, ZeroLimits, NoScript),
     SandboxConfig("b", GoodEnvFile, Some(<<>>), GoodLimits, SomeScript)}

(***************************************************************************)
(* Cluster objects.                                                        *)
(***************************************************************************)
\* (mutant) one secret name for every sandbox
SecretName_shared(name) == <<"sandbox", "-env">>

SecretName(name) == <<name, "-env">>
EgressName(name) == <<name, "-netpol">>
IngressName(name) == <<name, "-deny-ingress">>

Exists(store, objName) == \E o \in store : o.name = objName

ObjOf(store, objName) == CHOOSE o \in store : o.name = objName

\* The answers a create call can get: created, or 409 when an object of that
\* name is there; another API status; or an exception that is no ApiException.
CreateAnswers(store, objName) ==
    (IF Exists(store, objName) THEN {"409"} ELSE {"created"})
        \cup {"error", "exception"}

\* What was in the cluster before the calls: leftovers of sandbox "a".
Leftovers ==
    {{}, {"egress"}, {"secret", "egress", "ingress"},
     {"deployment", "secret", "egress", "ingress"}}

(***************************************************************************)
(* Resource builders.                                                      *)
(***************************************************************************)
CidrRule(cidr) == [to |-> <<"ipBlock", cidr>>, ports |-> {}]

DnsRule ==
    [to |-> <<"kube-system", "kube-dns">>,
     ports |-> {<<"UDP", DnsPort>>, <<"TCP", DnsPort>>}]

\* (mutant) the DNS rule put first
BuildEgressRules_dnsFirst(whitelist) ==
    <<DnsRule>> \o [i \in 1..Len(whitelist) |-> CidrRule(whitelist[i])]

BuildEgressRules(whitelist) ==
    [i \in 1..Len(whitelist) |-> CidrRule(whitelist[i])] \o <<DnsRule>>

BuildSecret(c, by) ==
    [name |-> SecretName(c.name), by |-> by, string_data |-> ParseEnv(c.env_file.lines)]

\* The label keys of a sandbox.
AppKey == "app"
SandboxKey == "katakate.org/sandbox"

\* config.namespace; the specs that give none are in the default namespace
Namespace(c) == IF "namespace" \in DOMAIN c THEN c.namespace ELSE "default"

\* runtime_class = getattr(config, "runtime_class_name", None) or "kata"
runtime_class(c) ==
    IF "runtime_class_name" \in DOMAIN c /\ c.runtime_class_name # ""
    THEN c.runtime_class_name ELSE "kata"

\* (mutant) the workload labelled like its pods, without runtime=kata
deployment_labels_asTemplate(c) == {<<AppKey, c.name>>, <<SandboxKey, c.name>>}

\* metadata.labels of the V1Deployment
deployment_labels(c) ==
    {<<AppKey, c.name>>, <<"runtime", "kata">>, <<SandboxKey, c.name>>}

BuildDeployment(c, by) ==
    [name |-> c.name, by |-> by, env_from |-> c.env_file.given,
     namespace |-> Namespace(c), runtime_class_name |-> runtime_class(c),
     labels |-> deployment_labels(c)]

BuildEgressPolicy(c, by) ==
    [name |-> EgressName(c.name), by |-> by,
     rules |-> BuildEgressRules(c.egress_whitelist.list)]

BuildIngressPolicy(c, by) ==
    [name |-> IngressName(c.name), by |-> by]

(***************************************************************************)
(* Trace entries and results.                                              *)
(***************************************************************************)
Event(stage, status) ==
    [kind |-> "emit", what |-> stage, how |-> status, body |-> <<>>]

ApiCall(op, answer, body) ==
    [kind |-> "call", what |-> op, how |-> answer, body |-> body]

Success(message) == [success |-> TRUE, message |-> message, error |-> <<>>]
Failure(error) == [success |-> FALSE, message |-> <<>>, error |-> error]
NoResult == [success |-> FALSE, message |-> <<>>, error |-> <<"pending">>]

AlreadyExists(name) == <<"Sandbox ", name, " already exists">>
CreatedMessage(name) == <<"Sandbox ", name, " created successfully">>

\* The event of the handler that catches every exception of create_sandbox.
ErrorEvent == Event("error", "")

(***************************************************************************)
(* create_sandbox.                                                         *)
(***************************************************************************)
\* (mutant) the egress policy applied before the init-wait
Pipeline_lockBeforeInit == <<"secret", "deploy", "egress", "initwait", "ingress">>

\* The stages in the order of the statements of create_sandbox.
Pipeline == <<"secret", "deploy", "initwait", "egress", "ingress">>

\* (mutant) the ingress-deny policy applied before the egress policy
StageAfter_ingressFirst(stage) ==
    CASE stage = "secret" -> "deploy"
      [] stage = "deploy" -> "initwait"
      [] stage = "initwait" -> "ingress"
      [] stage = "ingress" -> "egress"
      [] stage = "egress" -> "complete"

StageAfter(stage) ==
    LET i == CHOOSE k \in 1..Len(Pipeline) : Pipeline[k] = stage
    IN  IF i = Len(Pipeline) THEN "complete" ELSE Pipeline[i + 1]

\* The four stores as one value, and the step that leaves them as `c`.
Cluster ==
    [deployments |-> deployments, secrets |-> secrets,
     egressPols |-> egressPols, ingressPols |-> ingressPols]

Becomes(c) ==
    /\ deployments' = c.deployments
    /\ secrets' = c.secrets
    /\ egressPols' = c.egressPols
    /\ ingressPols' = c.ingressPols

\* The store after a create call answered `answer`.
Stored(store, obj, answer) == IF answer = "created" THEN store \cup {obj} ELSE store

\* (mutant) a failing return that rolls back what the call created
LeftBehind_rollback(c, p) ==
    [deployments |-> {o \in c.deployments : o.by # p},
     secrets |-> {o \in c.secrets : o.by # p},
     egressPols |-> {o \in c.egressPols : o.by # p},
     ingressPols |-> {o \in c.ingressPols : o.by # p}]

\* What a failing return leaves of the cluster: the failure returns and the
\* exception handler issue no call, so everything stays.
LeftBehind(c, p) == c

\* (mutant) every failing return announced with an error event
Return_announcesFailure(p, c, entries, res) ==
    /\ Becomes(IF res.success THEN c ELSE LeftBehind(c, p))
    /\ trace' = [trace EXCEPT ![p] =
            @ \o entries \o (IF res.success THEN <<>> ELSE <<ErrorEvent>>)]
    /\ pc' = [pc EXCEPT ![p] = "done"]
    /\ result' = [result EXCEPT ![p] = res]

\* return OperationResult(...)
Return(p, c, entries, res) ==
    /\ Becomes(IF res.success THEN c ELSE LeftBehind(c, p))
    /\ trace' = [trace EXCEPT ![p] = @ \o entries]
    /\ pc' = [pc EXCEPT ![p] = "done"]
    /\ result' = [result EXCEPT ![p] = res]

\* (mutant) the error event emitted ahead of what the failing step emitted
Caught_errorFirst(p, c, entries, message) ==
    Return(p, c, <<ErrorEvent>> \o entries, Failure(message))

\* except Exception as e: _emit({"stage": "error", ...}); return failure
Caught(p, c, entries, message) ==
    Return(p, c, entries \o <<ErrorEvent>>, Failure(message))

\* The progress sinks: no callback, one that returns, one that raises.
NoSink == "none"
WorkingSink == "working"
RaisingSink == "raising"
Sinks == {NoSink, WorkingSink, RaisingSink}

\* (mutant) _emit without its try/except: the exception of the sink gets out
_emit_unguarded(p, event) ==
    CASE progress_callback[p] = NoSink -> "not called"
      [] progress_callback[p] = WorkingSink -> "delivered"
      [] progress_callback[p] = RaisingSink -> "raised"

\* def _emit(event): if progress_callback: try: progress_callback(event)
\* except Exception: pass
_emit(p, event) ==
    CASE progress_callback[p] = NoSink -> "not called"
      [] progress_callback[p] = WorkingSink -> "delivered"
      [] progress_callback[p] = RaisingSink -> "swallowed"

\* Some _emit among `entries` raised.
EmitRaised(p, entries) ==
    \E i \in 1..Len(entries) :
        entries[i].kind = "emit" /\ _emit(p, entries[i]) = "raised"

\* The call goes on at `stage` after emitting and logging `entries`, unless
\* an exception came out of an _emit.
Goto(p, c, entries, stage) ==
    IF EmitRaised(p, entries)
    THEN Caught(p, c, entries, <<"callback">>)
    ELSE /\ Becomes(c)
         /\ trace' = [trace EXCEPT ![p] = @ \o entries]
         /\ pc' = [pc EXCEPT ![p] = stage]
         /\ UNCHANGED result

\* No local variable of interest.
NoLocals ==
    [clients |-> FALSE, errors |-> <<>>, stdout_data |-> <<>>, stderr_data |-> <<>>,
     stream |-> "none", connected |-> FALSE, turns_at_close |-> 0]

\* No container is looked at.
NoContainer ==
    [state |-> "none", pipefail |-> FALSE, at |-> 0, errexit |-> FALSE,
     files |-> {}, script |-> "not run", runs |-> 0, probed |-> "never",
     ready |-> FALSE]

\* No key store, clock or container takes part.
HostIdle ==
    /\ api_keys = {}
    /\ now = 0
    /\ container = NoContainer

\* if not self._validate_limits(config.limits): return ...; the three clients;
\* _emit provisioning.start
Validate(p) ==
    /\ pc[p] = "start"
    /\ LET v == _validate_limits(cfg[p].limits)
       IN  IF v.raised THEN Caught(p, Cluster, <<>>, <<"invalid literal for int()">>)
           ELSE IF ~v.val
           THEN Return(p, Cluster, <<>>, Failure(<<"Invalid resource limits">>))
           ELSE \E loaded \in BOOLEAN :
                   IF loaded
                   THEN Goto(p, Cluster, <<Event("provisioning", "start")>>, Pipeline[1])
                   ELSE Caught(p, Cluster, <<>>, <<"Could not load Kubernetes config">>)
    /\ UNCHANGED <<hostVars, cfg, elapsed, waitEnd, progress_callback, locals>>

\* (mutant) 409 on the secret taken for a failure, as it is for the workload
SecretAccepted_createdOnly(answer) == answer = "created"

\* a status of the secret create that does not end the call
SecretAccepted(answer) == answer \in {"created", "409"}

\* (mutant) the secret sent to the cluster before the parsed variables are
\* looked at
CreateSecret_createFirst(p) ==
    /\ pc[p] = "secret"
    /\ LET c == cfg[p]
       IN  IF ~(c.env_file.given /\ c.env_file.exists)
           THEN Goto(p, Cluster, <<>>, StageAfter("secret"))
           ELSE \E answer \in CreateAnswers(secrets, SecretName(c.name)) :
                   LET call == ApiCall("create_secret", answer, <<SecretName(c.name)>>)
                       after == [Cluster EXCEPT
                                   !.secrets = Stored(@, BuildSecret(c, p), answer)]
                   IN  IF answer = "exception"
                       THEN Caught(p, after, <<call>>, <<"transport">>)
                       ELSE IF ParseEnv(c.env_file.lines) = {}
                       THEN Return(p, after, <<call>>,
                                Failure(<<"env_file is empty or invalid; no variables parsed">>))
                       ELSE IF SecretAccepted(answer)
                       THEN Goto(p, after, <<call>>, StageAfter("secret"))
                       ELSE Return(p, after, <<call>>,
                                   Failure(<<"Failed to create secret">>))
    /\ UNCHANGED <<hostVars, cfg, elapsed, waitEnd, progress_callback, locals>>

\* if config.env_file and os.path.exists(config.env_file): parse, create secret
CreateSecret(p) ==
    /\ pc[p] = "secret"
    /\ LET c == cfg[p]
       IN  IF ~(c.env_file.given /\ c.env_file.exists)
           THEN Goto(p, Cluster, <<>>, StageAfter("secret"))
           ELSE IF ParseEnv(c.env_file.lines) = {}
           THEN Return(p, Cluster, <<>>,
                    Failure(<<"env_file is empty or invalid; no variables parsed">>))
           ELSE \E answer \in CreateAnswers(secrets, SecretName(c.name)) :
                   LET call == ApiCall("create_secret", answer, <<SecretName(c.name)>>)
                       after == [Cluster EXCEPT
                                   !.secrets = Stored(@, BuildSecret(c, p), answer)]
                   IN  IF answer = "exception"
                       THEN Caught(p, after, <<call>>, <<"transport">>)
                       ELSE IF SecretAccepted(answer)
                       THEN Goto(p, after, <<call>>, StageAfter("secret"))
                       ELSE Return(p, after, <<call>>,
                                   Failure(<<"Failed to create secret">>))
    /\ UNCHANGED <<hostVars, cfg, elapsed, waitEnd, progress_callback, locals>>

\* (mutant) 409 on the workload taken for success, as it is for the secret
WorkloadAccepted_409ok(answer) == answer \in {"created", "409"}

\* a status of the workload create that lets the call go on
WorkloadAccepted(answer) == answer = "created"

\* (mutant) 409 on the workload not told from the other errors
WorkloadFailure_generic(c, answer) == Failure(<<"Failed to create deployment">>)

WorkloadFailure(c, answer) ==
    IF answer = "409" THEN Failure(AlreadyExists(c.name))
    ELSE Failure(<<"Failed to create deployment">>)

\* apps_v1.create_namespaced_deployment; _emit provisioning.done
CreateWorkload(p) ==
    /\ pc[p] = "deploy"
    /\ LET c == cfg[p]
       IN  \E answer \in CreateAnswers(deployments, c.name) :
               LET call == ApiCall("create_deployment", answer, <<c.name>>)
                   after == [Cluster EXCEPT
                               !.deployments = Stored(@, BuildDeployment(c, p), answer)]
               IN  IF answer = "exception"
                   THEN Caught(p, after, <<call>>, <<"transport">>)
                   ELSE IF WorkloadAccepted(answer)
                   THEN Goto(p, after, <<call, Event("provisioning", "done")>>,
                             StageAfter("deploy"))
                   ELSE Return(p, after, <<call>>, WorkloadFailure(c, answer))
    /\ UNCHANGED <<hostVars, cfg, elapsed, waitEnd, progress_callback, locals>>

\* if config.before_script: _emit waiting; start_time = time.time()
\* else: _emit skipped
BeginInitWait(p) ==
    /\ pc[p] = "initwait"
    /\ IF cfg[p].before_script # NoScript
       THEN /\ Goto(p, Cluster, <<Event("before_script", "waiting")>>, "poll")
            /\ elapsed' = [elapsed EXCEPT ![p] = 0]
       ELSE /\ Goto(p, Cluster, <<Event("before_script", "skipped")>>,
                    StageAfter("initwait"))
            /\ UNCHANGED elapsed
    /\ UNCHANGED <<hostVars, cfg, waitEnd, progress_callback, locals>>

\* (mutant) the loop without its ceiling
InitWaitGoesOn_noCeiling(e) == TRUE

\* while time.time() - start_time < timeout_seconds
InitWaitGoesOn(e) == e < TimeoutSeconds

\* The clock readings after time.sleep(2)
AfterSleep(e) == {t \in TimePoints : t >= e + PollSeconds}

\* The loop is left (break, guard, or except: pass); _emit before_script.done
EndInitWait(p, entries, how) ==
    /\ Goto(p, Cluster, entries \o <<Event("before_script", "done")>>,
            StageAfter("initwait"))
    /\ waitEnd' = [waitEnd EXCEPT ![p] = how]
    /\ UNCHANGED elapsed

\* (mutant) a failed listing slept over and tried again, like a pod not ready
Poll_retriesError(p) ==
    /\ pc[p] = "poll"
    /\ IF ~InitWaitGoesOn(elapsed[p])
       THEN EndInitWait(p, <<>>, "timeout")
       ELSE \E answer \in {"not_ready", "exception"}
                          \cup (IF Exists(deployments, cfg[p].name)
                                THEN {"ready"} ELSE {}) :
               LET call == ApiCall("list_pods", answer, <<elapsed[p]>>)
               IN  IF answer \in {"not_ready", "exception"}
                   THEN \E t \in AfterSleep(elapsed[p]) :
                           /\ Goto(p, Cluster, <<call>>, "poll")
                           /\ elapsed' = [elapsed EXCEPT ![p] = t]
                           /\ UNCHANGED waitEnd
                   ELSE EndInitWait(p, <<call>>, answer)
    /\ UNCHANGED <<hostVars, cfg, progress_callback, locals>>

\* One turn of the init-wait loop: the guard, list_namespaced_pod, the Ready
\* test and the sleep.
Poll(p) ==
    /\ pc[p] = "poll"
    /\ IF ~InitWaitGoesOn(elapsed[p])
       THEN EndInitWait(p, <<>>, "timeout")
       ELSE \E answer \in {"not_ready", "exception"}
                          \cup (IF Exists(deployments, cfg[p].name)
                                THEN {"ready"} ELSE {}) :
               LET call == ApiCall("list_pods", answer, <<elapsed[p]>>)
               IN  IF answer = "not_ready"
                   THEN \E t \in AfterSleep(elapsed[p]) :
                           /\ Goto(p, Cluster, <<call>>, "poll")
                           /\ elapsed' = [elapsed EXCEPT ![p] = t]
                           /\ UNCHANGED waitEnd
                   ELSE EndInitWait(p, <<call>>, answer)
    /\ UNCHANGED <<hostVars, cfg, progress_callback, locals>>

\* (mutant) the whitelist tested for truth: an empty list taken for None
EgressWanted_truthy(c) == c.egress_whitelist.some /\ c.egress_whitelist.list # <<>>

\* if config.egress_whitelist is not None
EgressWanted(c) == c.egress_whitelist.some

\* a status of the egress policy create that does not end the call
EgressAccepted(answer) == answer \in {"created", "409"}

\* _emit applying; build the rules; create the policy; _emit done
\* else: _emit skipped
EgressLock(p) ==
    /\ pc[p] = "egress"
    /\ LET c == cfg[p]
       IN  IF ~EgressWanted(c)
           THEN Goto(p, Cluster, <<Event("network_lockdown", "skipped")>>,
                     StageAfter("egress"))
           ELSE \E answer \in CreateAnswers(egressPols, EgressName(c.name)) :
                   LET policy == BuildEgressPolicy(c, p)
                       did == <<Event("network_lockdown", "applying"),
                                ApiCall("create_egress", answer, policy.rules)>>
                       after == [Cluster EXCEPT
                                   !.egressPols = Stored(@, policy, answer)]
                   IN  IF answer = "exception"
                       THEN Caught(p, after, did, <<"transport">>)
                       ELSE IF EgressAccepted(answer)
                       THEN Goto(p, after,
                                 did \o <<Event("network_lockdown", "done")>>,
                                 StageAfter("egress"))
                       ELSE Return(p, after, did,
                                   Failure(<<"Failed to create network policy">>))
    /\ UNCHANGED <<hostVars, cfg, elapsed, waitEnd, progress_callback, locals>>

\* (mutant) every API status of the ingress-deny create taken for success
IngressAccepted_any(answer) == answer \in {"created", "409", "error"}

\* a status of the ingress-deny create that does not end the call
IngressAccepted(answer) == answer \in {"created", "409"}

\* create the deny-all ingress policy; 409 is reported as `exists`
IngressDeny(p) ==
    /\ pc[p] = "ingress"
    /\ LET c == cfg[p]
       IN  \E answer \in CreateAnswers(ingressPols, IngressName(c.name)) :
               LET call == ApiCall("create_ingress", answer, <<IngressName(c.name)>>)
                   after == [Cluster EXCEPT
                               !.ingressPols =
                                   Stored(@, BuildIngressPolicy(c, p), answer)]
               IN  IF answer = "exception"
                   THEN Caught(p, after, <<call>>, <<"transport">>)
                   ELSE IF IngressAccepted(answer)
                   THEN Goto(p, after,
                             <<call>> \o (IF answer = "409"
                                          THEN <<Event("network_lockdown", "exists")>>
                                          ELSE <<>>),
                             StageAfter("ingress"))
                   ELSE Return(p, after, <<call, Event("network_lockdown", "error")>>,
                               Failure(<<"Failed to create ingress deny policy">>))
    /\ UNCHANGED <<hostVars, cfg, elapsed, waitEnd, progress_callback, locals>>

\* _emit complete.success; return success
Complete(p) ==
    /\ pc[p] = "complete"
    /\ Return(p, Cluster, <<Event("complete", "success")>>,
              Success(CreatedMessage(cfg[p].name)))
    /\ UNCHANGED <<hostVars, cfg, elapsed, waitEnd, progress_callback, locals>>

(***************************************************************************)
(* Two concurrent calls of create_sandbox on one cluster.                  *)
(***************************************************************************)
LeftoverObjects(kinds, kind, obj) == IF kind \in kinds THEN {obj} ELSE {}

Init ==
    /\ \E kinds \in Leftovers :
          /\ deployments = LeftoverObjects(kinds, "deployment",
                     [name |-> "a", by |-> Preexisting, env_from |-> FALSE])
          /\ secrets = LeftoverObjects(kinds, "secret",
                     [name |-> SecretName("a"), by |-> Preexisting,
                      string_data |-> {<<<<"O">>, <<"ld">>>>}])
          /\ egressPols = LeftoverObjects(kinds, "egress",
                     [name |-> EgressName("a"), by |-> Preexisting,
                      rules |-> <<DnsRule>>])
          /\ ingressPols = LeftoverObjects(kinds, "ingress",
                     [name |-> IngressName("a"), by |-> Preexisting])
    /\ \E first \in ValidShapes \cup EdgeShapes, second \in RivalShapes :
          cfg = [p \in Procs |-> IF p = "first" THEN first ELSE second]
    /\ pc = [p \in Procs |-> "start"]
    /\ trace = [p \in Procs |-> <<>>]
    /\ result = [p \in Procs |-> NoResult]
    /\ elapsed = [p \in Procs |-> 0]
    /\ waitEnd = [p \in Procs |-> "none"]
    /\ progress_callback = [p \in Procs |-> WorkingSink]
    /\ locals = [p \in Procs |-> NoLocals]
    /\ HostIdle

\* One step of call p.
Step(p) ==
    \/ Validate(p)
    \/ CreateSecret(p)
    \/ CreateWorkload(p)
    \/ BeginInitWait(p)
    \/ Poll(p)
    \/ EgressLock(p)
    \/ IngressDeny(p)
    \/ Complete(p)

Next == \E p \in Procs : Step(p)

Spec == Init /\ [][Next]_vars

\* The steps of call p from the init-wait loop on.
LateStep(p) == Poll(p) \/ EgressLock(p) \/ IngressDeny(p) \/ Complete(p)

\* The initial states in which both calls have a script to wait for and ask
\* for the same name.
WaitInit ==
    /\ Init
    /\ \A p \in Procs : cfg[p].before_script # NoScript /\ cfg[p].name = "a"

\* A call is a sequential thread whose cluster calls return: once in the
\* init-wait loop, a call that can take a step takes it.
FairSpec == WaitInit /\ [][Next]_vars /\ \A p \in Procs : WF_vars(LateStep(p))

(***************************************************************************)
(* delete_sandbox: _delete_sandbox_resources.                              *)
(***************************************************************************)
\* How many times in succession the deleting client calls delete_sandbox.
MaxDeletes == 2

\* The arguments of delete_sandbox, and how many times in succession the
\* client calls it.
DeleteArgs(name, times) == [name |-> name, times |-> times]

\* The answers a delete call can get: deleted, or 404 when no object of that
\* name is there; another API status; or an exception that is no ApiException.
DeleteAnswers(store, objName) ==
    (IF Exists(store, objName) THEN {"deleted"} ELSE {"404"})
        \cup {"error", "exception"}

\* (mutant) a delete that spares a workload that is no sandbox
Deleted_sandboxesOnly(store, objName, answer) ==
    IF answer = "deleted"
    THEN {o \in store :
             \/ o.name # objName
             \/ /\ "labels" \in DOMAIN o
                /\ o.runtime_class_name # "kata"
                /\ <<"runtime", "kata">> \notin o.labels}
    ELSE store

\* The store after a delete call answered `answer`.
Deleted(store, objName, answer) ==
    IF answer = "deleted" THEN {o \in store : o.name # objName} ELSE store

\* (mutant) every ApiException collected, 404 too
Collected_404too(errors, label, answer) ==
    IF answer \in {"error", "404"} THEN Append(errors, label) ELSE errors

\* except ApiException as e: if e.status != 404: errors.append(...)
Collected(errors, label, answer) ==
    IF answer = "error" THEN Append(errors, label) ELSE errors

\* The end of a call, as the caller sees it, in the trace.
ReturnEntry(op, how) == [kind |-> "return", what |-> op, how |-> how, body |-> <<>>]

Returns(p) == {i \in 1..Len(trace[p]) : trace[p][i].kind = "return"}

DeletedMessage(name) == <<"Sandbox ", name, " deleted successfully">>

\* A call of delete_all_sandboxes has the namespace to delete all in for its
\* argument, a call of delete_sandbox a name.
InDeleteAll(p) == "all_in" \in DOMAIN cfg[p]

\* The name _delete_sandbox_resources was called with: the argument of
\* delete_sandbox, or the sandbox the loop of delete_all_sandboxes is at.
DeleteName(p) == IF InDeleteAll(p) THEN locals[p].todo[1] ELSE cfg[p].name

\* The end of one _delete_sandbox_resources inside delete_all_sandboxes.
ItemReturn(name, how) ==
    [kind |-> "return", what |-> "_delete_sandbox_resources", how |-> how,
     body |-> <<name>>]

\* {"name": ..., "success": result.success, "error": result.error or None}
ItemReport(name, res) ==
    [name |-> name, success |-> res.success,
     error |-> IF res.success THEN <<>> ELSE res.error]

FailedItems(results) == {i \in 1..Len(results) : ~results[i].success}

\* failed = [r for r in results if not r["success"]]; the OperationResult
DeleteAllResult(results) ==
    IF FailedItems(results) # {}
    THEN [success |-> FALSE, message |-> <<>>,
          error |-> <<"Failed to delete ", Cardinality(FailedItems(results)), " sandboxes">>,
          data |-> results]
    ELSE [success |-> TRUE, message |-> <<"Deleted ", Len(results), " sandboxes">>,
          error |-> <<>>, data |-> results]

\* except Exception as e: return OperationResult(success=False, error=str(e))
DeleteAllCaught(p, c, entries, error) ==
    /\ Becomes(c)
    /\ trace' = [trace EXCEPT ![p] =
            @ \o entries \o <<ReturnEntry("delete_all_sandboxes", "failure")>>]
    /\ pc' = [pc EXCEPT ![p] = "done"]
    /\ result' = [result EXCEPT ![p] =
            [success |-> FALSE, message |-> <<>>, error |-> error, data |-> <<>>]]
    /\ UNCHANGED locals

\* delete_all_sandboxes returns its report.
DeleteAllReturns(p, c, entries, results) ==
    LET res == DeleteAllResult(results)
        how == IF res.success THEN "success" ELSE "failure"
    IN  /\ Becomes(c)
        /\ trace' = [trace EXCEPT ![p] =
                @ \o entries \o <<ReturnEntry("delete_all_sandboxes", how)>>]
        /\ pc' = [pc EXCEPT ![p] = "done"]
        /\ result' = [result EXCEPT ![p] = res]
        /\ locals' = [locals EXCEPT ![p].results = results, ![p].todo = <<>>]

\* _delete_sandbox_resources gave `res` for the sandbox the loop is at:
\* results.append(...); the next sandbox, or the end of the loop
DeleteAllGoesOn(p, c, entries, res) ==
    LET name == locals[p].todo[1]
        item == ItemReturn(name, IF res.success THEN "success" ELSE "failure")
        results == Append(locals[p].results, ItemReport(name, res))
        rest == Tail(locals[p].todo)
    IN  IF rest = <<>>
        THEN DeleteAllReturns(p, c, entries \o <<item>>, results)
        ELSE /\ Becomes(c)
             /\ trace' = [trace EXCEPT ![p] = @ \o entries \o <<item>>]
             /\ pc' = [pc EXCEPT ![p] = "delete"]
             /\ locals' = [locals EXCEPT ![p].results = results, ![p].todo = rest,
                                         ![p].errors = <<>>]
             /\ UNCHANGED result

\* An exception leaves _delete_sandbox_resources: delete_sandbox hands it on
\* and its caller gets no OperationResult; delete_all_sandboxes catches it.
DeleteRaises(p, c, entries) ==
    IF InDeleteAll(p) THEN DeleteAllCaught(p, c, entries, <<"exception">>)
    ELSE /\ Becomes(c)
         /\ trace' = [trace EXCEPT ![p] =
                 @ \o entries \o <<ReturnEntry("delete_sandbox", "raised")>>]
         /\ pc' = [pc EXCEPT ![p] = "raised"]
         /\ result' = [result EXCEPT ![p] = NoResult]
         /\ UNCHANGED locals

\* (mutant) success whenever the last delete went through
DeleteResult_lastOnly(name, errors) ==
    IF errors # <<>> /\ Last(errors) = "network policy deny-ingress"
    THEN Failure(errors) ELSE Success(DeletedMessage(name))

\* if errors: return OperationResult(success=False, error="; ".join(errors))
\* return OperationResult(success=True, ...)
DeleteResult(name, errors) ==
    IF errors # <<>> THEN Failure(errors) ELSE Success(DeletedMessage(name))

\* _delete_sandbox_resources returns.  delete_sandbox returns with it, and
\* the client calls it again until it has called it cfg[p].times times;
\* delete_all_sandboxes goes on with its loop.
DeleteReturns(p, c, entries, errors) ==
    LET res == DeleteResult(DeleteName(p), errors)
        how == IF res.success THEN "success" ELSE "failure"
    IN  IF InDeleteAll(p) THEN DeleteAllGoesOn(p, c, entries, res)
        ELSE /\ Becomes(c)
             /\ trace' = [trace EXCEPT ![p] =
                     @ \o entries \o <<ReturnEntry("delete_sandbox", how)>>]
             /\ pc' = [pc EXCEPT ![p] =
                         IF Cardinality(Returns(p)) + 1 < cfg[p].times
                         THEN "delete" ELSE "done"]
             /\ result' = [result EXCEPT ![p] = res]
             /\ locals' = [locals EXCEPT ![p].errors = errors]

\* (mutant) the first error ends the deletes
DeleteGoesOn_stopAtError(p, c, entries, errors, next) ==
    IF errors # <<>> THEN DeleteReturns(p, c, entries, errors)
    ELSE /\ Becomes(c)
         /\ trace' = [trace EXCEPT ![p] = @ \o entries]
         /\ pc' = [pc EXCEPT ![p] = next]
         /\ locals' = [locals EXCEPT ![p].errors = errors, ![p].clients = TRUE]
         /\ UNCHANGED result

\* The next try block of _delete_sandbox_resources is entered, whatever the
\* last one collected.
DeleteGoesOn(p, c, entries, errors, next) ==
    /\ Becomes(c)
    /\ trace' = [trace EXCEPT ![p] = @ \o entries]
    /\ pc' = [pc EXCEPT ![p] = next]
    /\ locals' = [locals EXCEPT ![p].errors = errors, ![p].clients = TRUE]
    /\ UNCHANGED result

\* the three client getters, outside any try; errors = []; the workload delete
DeleteDeployment(p) ==
    /\ pc[p] = "delete"
    /\ \E loaded \in (IF locals[p].clients THEN {TRUE} ELSE BOOLEAN) :
          IF ~loaded
          THEN DeleteRaises(p, Cluster, <<ApiCall("load_kube_config", "exception", <<>>)>>)
          ELSE \E answer \in DeleteAnswers(deployments, DeleteName(p)) :
                  LET call == ApiCall("delete_deployment", answer, <<DeleteName(p)>>)
                      after == [Cluster EXCEPT
                                  !.deployments = Deleted(@, DeleteName(p), answer)]
                  IN  IF answer = "exception" THEN DeleteRaises(p, after, <<call>>)
                      ELSE DeleteGoesOn(p, after, <<call>>,
                                        Collected(<<>>, "deployment", answer),
                                        "delete_secret")
    /\ UNCHANGED <<hostVars, cfg, elapsed, waitEnd, progress_callback>>

\* v1.delete_namespaced_secret(name=f"{name}-env")
DeleteSecret(p) ==
    /\ pc[p] = "delete_secret"
    /\ \E answer \in DeleteAnswers(secrets, SecretName(DeleteName(p))) :
          LET call == ApiCall("delete_secret", answer, <<SecretName(DeleteName(p))>>)
              after == [Cluster EXCEPT
                          !.secrets = Deleted(@, SecretName(DeleteName(p)), answer)]
          IN  IF answer = "exception" THEN DeleteRaises(p, after, <<call>>)
              ELSE DeleteGoesOn(p, after, <<call>>,
                                Collected(locals[p].errors, "secret", answer),
                                "delete_egress")
    /\ UNCHANGED <<hostVars, cfg, elapsed, waitEnd, progress_callback>>

\* networking_v1.delete_namespaced_network_policy(name=f"{name}-netpol")
DeleteEgress(p) ==
    /\ pc[p] = "delete_egress"
    /\ \E answer \in DeleteAnswers(egressPols, EgressName(DeleteName(p))) :
          LET call == ApiCall("delete_egress", answer, <<EgressName(DeleteName(p))>>)
              after == [Cluster EXCEPT
                          !.egressPols = Deleted(@, EgressName(DeleteName(p)), answer)]
          IN  IF answer = "exception" THEN DeleteRaises(p, after, <<call>>)
              ELSE DeleteGoesOn(p, after, <<call>>,
                                Collected(locals[p].errors, "network policy", answer),
                                "delete_ingress")
    /\ UNCHANGED <<hostVars, cfg, elapsed, waitEnd, progress_callback>>

\* networking_v1.delete_namespaced_network_policy(name=f"{name}-deny-ingress");
\* the return
DeleteIngress(p) ==
    /\ pc[p] = "delete_ingress"
    /\ \E answer \in DeleteAnswers(ingressPols, IngressName(DeleteName(p))) :
          LET call == ApiCall("delete_ingress", answer, <<IngressName(DeleteName(p))>>)
              after == [Cluster EXCEPT
                          !.ingressPols = Deleted(@, IngressName(DeleteName(p)), answer)]
          IN  IF answer = "exception" THEN DeleteRaises(p, after, <<call>>)
              ELSE DeleteReturns(p, after, <<call>>,
                                 Collected(locals[p].errors,
                                           "network policy deny-ingress", answer))
    /\ UNCHANGED <<hostVars, cfg, elapsed, waitEnd, progress_callback>>

DeleteStep(p) ==
    \/ DeleteDeployment(p)
    \/ DeleteSecret(p)
    \/ DeleteEgress(p)
    \/ DeleteIngress(p)

(***************************************************************************)
(* A client that calls delete_sandbox("a") MaxDeletes times in succession  *)
(* on a cluster that holds any of the four objects of sandbox "a".  The    *)
(* other process makes no call.                                            *)
(***************************************************************************)
ObjectKinds == {"deployment", "secret", "egress", "ingress"}

\* The cluster holds the objects of sandbox "a" of the kinds `kinds`.
Holds(kinds) ==
    /\ deployments = LeftoverObjects(kinds, "deployment",
               [name |-> "a", by |-> Preexisting, env_from |-> FALSE])
    /\ secrets = LeftoverObjects(kinds, "secret",
               [name |-> SecretName("a"), by |-> Preexisting,
                string_data |-> {<<<<"O">>, <<"ld">>>>}])
    /\ egressPols = LeftoverObjects(kinds, "egress",
               [name |-> EgressName("a"), by |-> Preexisting,
                rules |-> <<DnsRule>>])
    /\ ingressPols = LeftoverObjects(kinds, "ingress",
               [name |-> IngressName("a"), by |-> Preexisting])

\* No call has taken a step.
Fresh ==
    /\ trace = [p \in Procs |-> <<>>]
    /\ result = [p \in Procs |-> NoResult]
    /\ elapsed = [p \in Procs |-> 0]
    /\ waitEnd = [p \in Procs |-> "none"]
    /\ locals = [p \in Procs |-> NoLocals]
    /\ HostIdle

DeleteInit ==
    /\ \E kinds \in SUBSET ObjectKinds : Holds(kinds)
    /\ cfg = [p \in Procs |-> DeleteArgs("a", MaxDeletes)]
    /\ pc = [p \in Procs |-> IF p = "first" THEN "delete" ELSE "idle"]
    /\ progress_callback = [p \in Procs |-> NoSink]
    /\ Fresh

DeleteNext == \E p \in Procs : DeleteStep(p)

DeleteSpec == DeleteInit /\ [][DeleteNext]_vars

(***************************************************************************)
(* One call of delete_sandbox("a") next to one call of create_sandbox for  *)
(* "a" or for "b".                                                         *)
(***************************************************************************)
\* What the create next to the delete asks for, and under which name.
CreatorShapes ==
    {SandboxConfig(n, GoodEnvFile, Some(<<>>), GoodLimits, s) :
        n \in {"a", "b"}, s \in {NoScript, SomeScript}}

MixInit ==
    /\ \E kinds \in SUBSET ObjectKinds : Holds(kinds)
    /\ \E creator \in CreatorShapes :
          cfg = [p \in Procs |-> IF p = "first" THEN DeleteArgs("a", 1) ELSE creator]
    /\ pc = [p \in Procs |-> IF p = "first" THEN "delete" ELSE "start"]
    /\ progress_callback = [p \in Procs |-> WorkingSink]
    /\ Fresh

MixNext == \E p \in Procs : Step(p) \/ DeleteStep(p)

MixSpec == MixInit /\ [][MixNext]_vars

(***************************************************************************)
(* exec_command.                                                           *)
(***************************************************************************)
\* How many pods a listing holds at most, and how many turns of the pump
\* loop find the stream open at most.
MaxPods == 2
MaxTurns == 2

Phases == {"Running", "Pending", "Failed"}

\* The arguments of exec_command.
ExecArgs(sandbox_name, command) == [name |-> sandbox_name, command |-> command]

ExecResult(exit_code, stdout, stderr) ==
    [exit_code |-> exit_code, stdout |-> stdout, stderr |-> stderr]

NoExecResult == ExecResult(0 - 1, <<>>, <<"pending">>)

\* resp.returncode: None, or the exit status of the command
NoCode == [known |-> FALSE, code |-> 0]
Code(n) == [known |-> TRUE, code |-> n]
ReturnCodes == {NoCode, Code(0), Code(2)}

\* What str(e) is for the exceptions exec_command raises itself.
NotFoundMessage(name) == <<"Sandbox ", name, " not found">>
GetFailedMessage == <<"Failed to get deployment">>
NoPodsMessage(name) == <<"No pods found for sandbox ", name>>
NotRunningMessage(phase) == <<"Pod is not running (status: ", phase, ")">>
TransportMessage == <<"transport">>
ConfigMessage == <<"Could not load Kubernetes config">>

\* (mutant) the handler that keeps what was read from the stream
ExecCaught_keepsOutput(p, entries, message) ==
    /\ trace' = [trace EXCEPT ![p] = @ \o entries]
    /\ pc' = [pc EXCEPT ![p] = "done"]
    /\ result' = [result EXCEPT ![p] =
                     ExecResult(1, locals[p].stdout_data, message)]
    /\ UNCHANGED <<clusterVars, locals>>

\* except Exception as e: return ExecResult(exit_code=1, stdout="", stderr=str(e))
ExecCaught(p, entries, message) ==
    /\ trace' = [trace EXCEPT ![p] = @ \o entries]
    /\ pc' = [pc EXCEPT ![p] = "done"]
    /\ result' = [result EXCEPT ![p] = ExecResult(1, <<>>, message)]
    /\ UNCHANGED <<clusterVars, locals>>

\* The call goes on at `next` with the local variables `vals`.
ExecGoesOn(p, entries, next, vals) ==
    /\ trace' = [trace EXCEPT ![p] = @ \o entries]
    /\ pc' = [pc EXCEPT ![p] = next]
    /\ locals' = [locals EXCEPT ![p] = vals]
    /\ UNCHANGED <<clusterVars, result>>

\* The answers of read_namespaced_deployment.
ReadAnswers(name) ==
    (IF Exists(deployments, name) THEN {"found"} ELSE {"404"})
        \cup {"error", "exception"}

\* the two client getters; apps_v1.read_namespaced_deployment
ExecReadWorkload(p) ==
    /\ pc[p] = "exec"
    /\ \E loaded \in BOOLEAN :
          IF ~loaded
          THEN ExecCaught(p, <<ApiCall("load_kube_config", "exception", <<>>)>>,
                          ConfigMessage)
          ELSE \E answer \in ReadAnswers(cfg[p].name) :
                  LET call == ApiCall("read_deployment", answer, <<cfg[p].name>>)
                  IN  CASE answer = "found" -> ExecGoesOn(p, <<call>>, "exec_pods", locals[p])
                        [] answer = "404" ->
                              ExecCaught(p, <<call>>, NotFoundMessage(cfg[p].name))
                        [] answer = "error" -> ExecCaught(p, <<call>>, GetFailedMessage)
                        [] answer = "exception" ->
                              ExecCaught(p, <<call>>, TransportMessage)
    /\ UNCHANGED <<hostVars, cfg, elapsed, waitEnd, progress_callback>>

\* (mutant) the phase not looked at
PodUsable_anyPhase(items) == items # <<>>

\* if not pods.items: raise; pod = pods.items[0];
\* if pod.status.phase != "Running": raise
PodUsable(items) == items # <<>> /\ items[1] = "Running"

\* v1.list_namespaced_pod(label_selector=f"app={sandbox_name}"); the checks
\* of the listing
ExecListPods(p) ==
    /\ pc[p] = "exec_pods"
    /\ \/ ExecCaught(p, <<ApiCall("list_pods", "exception", <<>>)>>, TransportMessage)
       \/ \E items \in SeqsUpTo(Phases, MaxPods) :
             LET call == ApiCall("list_pods", "listed", items)
             IN  IF PodUsable(items) THEN ExecGoesOn(p, <<call>>, "exec_stream", locals[p])
                 ELSE IF items = <<>>
                 THEN ExecCaught(p, <<call>>, NoPodsMessage(cfg[p].name))
                 ELSE ExecCaught(p, <<call>>, NotRunningMessage(items[1]))
    /\ UNCHANGED <<hostVars, cfg, elapsed, waitEnd, progress_callback>>

\* resp = stream(v1.connect_get_namespaced_pod_exec, ...); stdout_data = "";
\* stderr_data = ""
ExecOpenStream(p) ==
    /\ pc[p] = "exec_stream"
    /\ \E answer \in {"opened", "exception"} :
          LET call == ApiCall("open_stream", answer, <<cfg[p].command>>)
          IN  IF answer = "exception" THEN ExecCaught(p, <<call>>, TransportMessage)
              ELSE ExecGoesOn(p, <<call>>, "pump",
                              [locals[p] EXCEPT !.stdout_data = <<>>,
                                                !.stderr_data = <<>>,
                                                !.stream = "open",
                                                !.connected = TRUE])
    /\ UNCHANGED <<hostVars, cfg, elapsed, waitEnd, progress_callback>>

\* What one turn can read: nothing, or one chunk.
Chunks(chunk) == {<<>>, <<chunk>>}

Turns(p) == Cardinality({i \in 1..Len(trace[p]) : trace[p][i].what = "update"})

\* The stream `resp` of call p: "open", or "closed" once one of its ends has
\* closed it.  `connected` is what the client knows of it, which is what
\* resp.is_open() answers: the close of the remote end is seen by the
\* resp.update() that reads it, a close at the near end at once.
StreamEnds == {"remote", "near"}

\* One end closes the stream of call p while the pump loop runs.
StreamCloses(p) ==
    /\ pc[p] = "pump"
    /\ locals[p].stream = "open"
    /\ \E end \in StreamEnds :
          locals' = [locals EXCEPT ![p].stream = "closed",
                                   ![p].connected = (end = "remote"),
                                   ![p].turns_at_close = Turns(p)]
    /\ UNCHANGED <<clusterVars, hostVars, cfg, pc, trace, result, elapsed, waitEnd,
                   progress_callback>>

\* (mutant) the loop test that sees a close one turn late
is_open_late(p) ==
    \/ locals[p].connected
    \/ locals[p].stream = "closed" /\ Turns(p) - locals[p].turns_at_close < 2

\* resp.is_open()
is_open(p) == locals[p].connected

\* One turn of `while resp.is_open()`: resp.update(timeout=1), which returns
\* within its second, then read what there is; or the loop is left: the exit
\* code and the return.  A stream that stays open is polled MaxTurns times.
ExecPump(p) ==
    /\ pc[p] = "pump"
    /\ IF is_open(p)
       THEN /\ locals[p].stream = "closed" \/ Turns(p) < MaxTurns
            /\ \/ ExecCaught(p, <<ApiCall("update", "exception", <<>>)>>,
                             TransportMessage)
               \/ \E out \in Chunks("out"), err \in Chunks("err") :
                     ExecGoesOn(p, <<ApiCall("update", "read", <<out, err>>)>>,
                                "pump",
                                [locals[p] EXCEPT
                                    !.stdout_data = @ \o out,
                                    !.stderr_data = @ \o err,
                                    !.connected = (locals[p].stream = "open")])
       ELSE \E rc \in ReturnCodes :
               /\ trace' = [trace EXCEPT ![p] =
                               Append(@, ApiCall("returncode", "closed", <<rc>>))]
               /\ pc' = [pc EXCEPT ![p] = "done"]
               /\ result' = [result EXCEPT ![p] =
                                ExecResult(IF rc.known THEN rc.code ELSE 0,
                                           locals[p].stdout_data,
                                           locals[p].stderr_data)]
               /\ UNCHANGED <<clusterVars, locals>>
    /\ UNCHANGED <<hostVars, cfg, elapsed, waitEnd, progress_callback>>

ExecStep(p) ==
    \/ ExecReadWorkload(p)
    \/ ExecListPods(p)
    \/ ExecOpenStream(p)
    \/ StreamCloses(p)
    \/ ExecPump(p)

(***************************************************************************)
(* One call of exec_command("a", ...) on a cluster that holds the workload *)
(* "a" or not.  The other process makes no call.                           *)
(***************************************************************************)
ExecInit ==
    /\ \E kinds \in {{}, ObjectKinds} : Holds(kinds)
    /\ cfg = [p \in Procs |-> ExecArgs("a", "echo hi")]
    /\ pc = [p \in Procs |-> IF p = "first" THEN "exec" ELSE "idle"]
    /\ trace = [p \in Procs |-> <<>>]
    /\ result = [p \in Procs |-> NoExecResult]
    /\ elapsed = [p \in Procs |-> 0]
    /\ waitEnd = [p \in Procs |-> "none"]
    /\ progress_callback = [p \in Procs |-> NoSink]
    /\ locals = [p \in Procs |-> NoLocals]
    /\ HostIdle

ExecNext == \E p \in Procs : ExecStep(p)

ExecSpec == ExecInit /\ [][ExecNext]_vars

\* The thread of exec_command runs on: its loop test, its update, which
\* returns within its timeout, and its return are taken when they can be.
ExecFairSpec == ExecSpec /\ \A p \in Procs : WF_vars(ExecPump(p))

(***************************************************************************)
(* The validation of one limits value: create_sandbox up to its first      *)
(* cluster call, for every short string over the characters quantities     *)
(* are written with.  The other process makes no call.                     *)
(***************************************************************************)
\* The longest limits value tried.
MaxLen == 3

LimitChars == {"0", "1", "5", "-", "K", "M", "G", "i", "m"}

LimitsInit ==
    /\ Holds({})
    /\ \E key \in CheckedKeys, value \in SeqsUpTo(LimitChars, MaxLen) :
          cfg = [p \in Procs |->
                    SandboxConfig("a", NoEnvFile, None, << <<key, value>> >>, NoScript)]
    /\ pc = [p \in Procs |-> IF p = "first" THEN "start" ELSE "idle"]
    /\ progress_callback = [p \in Procs |-> NoSink]
    /\ Fresh

LimitsNext == \E p \in Procs : Validate(p)

LimitsSpec == LimitsInit /\ [][LimitsNext]_vars

(***************************************************************************)
(* Two calls of create_sandbox with the same spec but for the names "a"    *)
(* and "b", each with a progress sink of its own.                          *)
(***************************************************************************)
SinkShapes ==
    {SandboxConfig("a", GoodEnvFile, w, GoodLimits, s) :
        w \in {None, Some(<<"10.0.0.0/8">>)}, s \in {NoScript, SomeScript}}

SinkInit ==
    /\ \E kinds \in {{}, {"secret", "egress", "ingress"}} : Holds(kinds)
    /\ \E shape \in SinkShapes :
          cfg = [p \in Procs |->
                    IF p = "first" THEN shape ELSE [shape EXCEPT !.name = "b"]]
    /\ pc = [p \in Procs |-> "start"]
    /\ \E sink \in Sinks :
          progress_callback = [p \in Procs |->
                                  IF p = "first" THEN RaisingSink ELSE sink]
    /\ Fresh

SinkSpec == SinkInit /\ [][Next]_vars

(***************************************************************************)
(* The container of a sandbox.  create_sandbox hands the cluster a command *)
(* line for /bin/sh -c and a readiness probe; the container runtime runs   *)
(* the command line, the kubelet runs the probe in the running container   *)
(* and restarts the container when its shell ends (restart_policy Always). *)
(* A restart is a new container of the same image: the files of the run    *)
(* before are gone.                                                        *)
(***************************************************************************)
\* How often the container is started.
MaxRuns == 3

before_done_file == "/tmp/k7_before_done"

\* A script of blanks only.
BlankScript == " "

\* script_block = config.before_script.strip(); the scripts of the model have
\* no blanks at their ends, apart from the one that is blanks only.
script_block(before_script) ==
    IF before_script = BlankScript THEN "" ELSE before_script

ShellCmd(run, arg) == [run |-> run, arg |-> arg]

\* The wrapper with the sentinel created before the script is run.
main_cmd_touchFirst(c) ==
    IF c.before_script # NoScript
    THEN << ShellCmd("set -euo pipefail", ""),
            ShellCmd("rm -f", before_done_file),
            ShellCmd("touch", before_done_file),
            ShellCmd("script", script_block(c.before_script)),
            ShellCmd("exec sleep", "365d") >>
    ELSE << ShellCmd("sleep", "365d") >>

\* main_cmd: the commands of the line handed to /bin/sh -c, in order
main_cmd(c) ==
    IF c.before_script # NoScript
    THEN << ShellCmd("set -euo pipefail", ""),
            ShellCmd("rm -f", before_done_file),
            ShellCmd("script", script_block(c.before_script)),
            ShellCmd("touch", before_done_file),
            ShellCmd("exec sleep", "365d") >>
    ELSE << ShellCmd("sleep", "365d") >>

\* container.readiness_probe: the command the kubelet runs in the container
readiness_probe(c) ==
    IF c.before_script # NoScript
    THEN ShellCmd("test -f", before_done_file)
    ELSE ShellCmd("true", "")

\* The sandbox whose container is looked at is the one of the first call.
Sandbox == cfg["first"]

\* The shell cannot read a line with nothing between two semicolons.
SyntaxError(cmds) ==
    \E i \in 1..Len(cmds) : cmds[i].run = "script" /\ cmds[i].arg = ""

\* The kubelet starts the container, for the first time or after its shell
\* ended; the shell reads the whole line before it runs any of it.
ContainerStart ==
    /\ container.state \in {"created", "exited"}
    /\ container.runs < MaxRuns
    /\ container' = [container EXCEPT
            !.state = IF SyntaxError(main_cmd(Sandbox)) THEN "exited" ELSE "running",
            !.at = 1, !.errexit = FALSE, !.files = {}, !.script = "not run",
            !.runs = @ + 1, !.probed = "never", !.ready = FALSE]
    /\ UNCHANGED <<clusterVars, cfg, pc, trace, result, elapsed, waitEnd,
                   progress_callback, locals, api_keys, now>>

\* The shell runs the next command of the line.  A shell without the
\* pipefail option ends at `set`; with errexit on, a failing script ends the
\* shell; `sleep` does not end.
ShellStep ==
    /\ container.state = "running"
    /\ LET cmd == main_cmd(Sandbox)[container.at]
       IN  CASE cmd.run = "set -euo pipefail" ->
                    container' =
                        IF container.pipefail
                        THEN [container EXCEPT !.errexit = TRUE, !.at = @ + 1]
                        ELSE [container EXCEPT !.state = "exited"]
             [] cmd.run = "rm -f" ->
                    container' = [container EXCEPT !.files = @ \ {cmd.arg},
                                                   !.at = @ + 1]
             [] cmd.run = "script" ->
                    \E status \in {0, 1} :
                        container' =
                            IF status = 0
                            THEN [container EXCEPT !.script = "succeeded",
                                                   !.at = @ + 1]
                            ELSE IF container.errexit
                            THEN [container EXCEPT !.script = "failed",
                                                   !.state = "exited"]
                            ELSE [container EXCEPT !.script = "failed",
                                                   !.at = @ + 1]
             [] cmd.run = "touch" ->
                    container' = [container EXCEPT !.files = @ \cup {cmd.arg},
                                                   !.at = @ + 1]
             [] OTHER -> FALSE
    /\ UNCHANGED <<clusterVars, cfg, pc, trace, result, elapsed, waitEnd,
                   progress_callback, locals, api_keys, now>>

\* The running container is killed from outside.
ContainerKilled ==
    /\ container.state = "running"
    /\ container' = [container EXCEPT !.state = "exited", !.ready = FALSE]
    /\ UNCHANGED <<clusterVars, cfg, pc, trace, result, elapsed, waitEnd,
                   progress_callback, locals, api_keys, now>>

\* The kubelet runs the readiness probe in the running container and
\* reports the pod Ready when the probe succeeds.
Probe ==
    /\ container.state = "running"
    /\ LET probe == readiness_probe(Sandbox)
           ok == probe.run = "true" \/ probe.arg \in container.files
       IN  container' = [container EXCEPT
               !.probed = IF ok THEN "succeeded" ELSE "failed", !.ready = ok]
    /\ UNCHANGED <<clusterVars, cfg, pc, trace, result, elapsed, waitEnd,
                   progress_callback, locals, api_keys, now>>

Scripts == {NoScript, BlankScript, SomeScript}

\* The workload of sandbox "a" is in the cluster and its container is about
\* to be started, in an image whose shell has the pipefail option or has not.
ContainerInit ==
    /\ \E s \in Scripts :
          /\ cfg = [p \in Procs |-> SandboxConfig("a", NoEnvFile, None, NoLimits, s)]
          /\ deployments = {BuildDeployment(SandboxConfig("a", NoEnvFile, None, NoLimits, s),
                                            "first")}
    /\ secrets = {}
    /\ egressPols = {}
    /\ ingressPols = {BuildIngressPolicy(SandboxConfig("a", NoEnvFile, None, NoLimits, NoScript),
                                         "first")}
    /\ pc = [p \in Procs |-> "idle"]
    /\ progress_callback = [p \in Procs |-> NoSink]
    /\ trace = [p \in Procs |-> <<>>]
    /\ result = [p \in Procs |-> NoResult]
    /\ elapsed = [p \in Procs |-> 0]
    /\ waitEnd = [p \in Procs |-> "none"]
    /\ locals = [p \in Procs |-> NoLocals]
    /\ api_keys = {}
    /\ now = 0
    /\ \E pipefail \in BOOLEAN :
          container = [NoContainer EXCEPT !.state = "created", !.pipefail = pipefail]

ContainerNext == ContainerStart \/ ShellStep \/ ContainerKilled \/ Probe

ContainerSpec == ContainerInit /\ [][ContainerNext]_vars

(***************************************************************************)
(* The objects create_sandbox builds from a spec, before it hands them to  *)
(* the cluster: their labels, their selectors and the capabilities of the  *)
(* container.  A dict of labels is the set of its <<key, value>> pairs.    *)
(***************************************************************************)
\* The longest capability list tried.
MaxCaps == 2

\* str.upper() on the letters capability names are written with here
Upper(c) ==
    CASE c = "a" -> "A" [] c = "l" -> "L" [] c = "n" -> "N" [] c = "e" -> "E"
      [] c = "t" -> "T" [] OTHER -> c

UpperStr(s) == [i \in 1..Len(s) |-> Upper(s[i])]

\* getattr(config, field, None)
GetAttr(c, field) == IF field \in DOMAIN c THEN c[field] ELSE None

ALL == <<"A", "L", "L">>

\* (mutant) an empty cap_drop taken for an absent one
drop_caps_emptyIsDefault(c) ==
    IF ~GetAttr(c, "cap_drop").some \/ GetAttr(c, "cap_drop").list = <<>>
    THEN <<ALL>>
    ELSE [i \in 1..Len(c.cap_drop.list) |-> UpperStr(c.cap_drop.list[i])]

\* drop_caps: ["ALL"] if cap_drop is None, else the list given, upper-cased
drop_caps(c) ==
    IF ~GetAttr(c, "cap_drop").some
    THEN <<ALL>>
    ELSE [i \in 1..Len(c.cap_drop.list) |-> UpperStr(c.cap_drop.list[i])]

\* add_caps: [c.upper() for c in (cap_add or [])] or None
add_caps(c) ==
    LET given == GetAttr(c, "cap_add").list
        upper == [i \in 1..Len(given) |-> UpperStr(given[i])]
    IN  IF upper # <<>> THEN Some(upper) ELSE None

\* V1Capabilities(drop=drop_caps if drop_caps else None, add=add_caps)
V1Capabilities(c) ==
    [drop |-> IF drop_caps(c) # <<>> THEN Some(drop_caps(c)) ELSE None,
     add |-> add_caps(c)]


\* (mutant) the workload selecting on the label the policies select on
match_labels_sandboxKey(c) == {<<SandboxKey, c.name>>}

\* selector=V1LabelSelector(match_labels={"app": config.name})
match_labels(c) == {<<AppKey, c.name>>}

\* V1Deployment: metadata, selector, pod template and its one container
deployment(c) ==
    [name |-> c.name,
     labels |-> deployment_labels(c),
     selector |-> match_labels(c),
     template_labels |-> {<<AppKey, c.name>>, <<SandboxKey, c.name>>},
     runtime_class_name |-> runtime_class(c),
     command |-> main_cmd(c),
     readiness_probe |-> readiness_probe(c),
     capabilities |-> V1Capabilities(c)]

\* V1NetworkPolicy <name>-netpol, built when egress_whitelist is not None
network_policy(c) ==
    [built |-> EgressWanted(c),
     name |-> EgressName(c.name),
     pod_selector |-> {<<SandboxKey, c.name>>},
     policy_types |-> <<"Egress">>,
     egress |-> BuildEgressRules(c.egress_whitelist.list)]

\* V1NetworkPolicy <name>-deny-ingress
deny_ingress(c) ==
    [name |-> IngressName(c.name),
     pod_selector |-> {<<SandboxKey, c.name>>},
     policy_types |-> <<"Ingress">>,
     ingress |-> <<>>]

\* The three objects as create_sandbox holds them in its local variables.
Build(p) ==
    /\ pc[p] = "build"
    /\ locals' = [locals EXCEPT ![p] =
            [deployment |-> deployment(cfg[p]),
             network_policy |-> network_policy(cfg[p]),
             deny_ingress |-> deny_ingress(cfg[p])]]
    /\ pc' = [pc EXCEPT ![p] = "built"]
    /\ UNCHANGED <<clusterVars, hostVars, cfg, trace, result, elapsed, waitEnd,
                   progress_callback>>

CapNames == {<<"a", "l", "l">>, <<"N", "e", "t">>}

\* cap_drop and cap_add: absent, empty, or a list of names
CapLists == {None} \cup {Some(l) : l \in SeqsUpTo(CapNames, MaxCaps)}

\* Specs under both names, with and without a whitelist and a script, with
\* every capability list; and a spec that has no capability fields at all.
BuildShapes ==
    {SandboxConfig(n, NoEnvFile, w, NoLimits, s) @@ [cap_drop |-> d, cap_add |-> a] :
        n \in {"a", "b"}, w \in {None, Some(<<"10.0.0.0/8">>)},
        s \in {NoScript, SomeScript}, d \in CapLists, a \in CapLists}
    \cup {SandboxConfig("a", NoEnvFile, None, NoLimits, NoScript)}

BuildInit ==
    /\ Holds({})
    /\ \E shape \in BuildShapes : cfg = [p \in Procs |-> shape]
    /\ pc = [p \in Procs |-> IF p = "first" THEN "build" ELSE "idle"]
    /\ progress_callback = [p \in Procs |-> NoSink]
    /\ Fresh

BuildNext == \E p \in Procs : Build(p)

BuildSpec == BuildInit /\ [][BuildNext]_vars

(***************************************************************************)
(* Credential discovery: _load_k3s_config of a K7Core built with or        *)
(* without an explicit kubeconfig path, on a host where each configuration *)
(* source is there or not and loads or not.                                *)
(***************************************************************************)
NoPath == ""
ExplicitPath == "/home/dev/kubeconfig"
K3sPath == "/etc/rancher/k3s/k3s.yaml"
\* load_kube_config() without a file: the client library's own default
DefaultKubeconfig == "~/.kube/config"
InCluster == "in-cluster"

ConfigFiles == {ExplicitPath, K3sPath}
ConfigSources == {ExplicitPath, K3sPath, DefaultKubeconfig, InCluster}

\* What loading a source gives: the configuration, a ConfigException, or
\* another exception.
LoadAnswers == {"ok", "ConfigException", "exception"}

\* K7Core(kubeconfig_path) on a host: the files that exist and the answer of
\* every source.
LoadArgs(kubeconfig_path, exists, answers) ==
    [name |-> "a", kubeconfig_path |-> kubeconfig_path, exists |-> exists,
     answers |-> answers]

\* k3s_config_path = self.kubeconfig_path or "/etc/rancher/k3s/k3s.yaml"
k3s_config_path(c) ==
    IF c.kubeconfig_path # NoPath THEN c.kubeconfig_path ELSE K3sPath

\* The source the first try block loads.
KubeConfigSource(c) ==
    IF k3s_config_path(c) \in c.exists THEN k3s_config_path(c) ELSE DefaultKubeconfig

\* _load_k3s_config, when no configuration is loaded yet
_load_k3s_config(p) ==
    /\ pc[p] = "load"
    /\ LET c == cfg[p]
           first == KubeConfigSource(c)
           kube == ApiCall("load_kube_config", c.answers[first], <<first>>)
           incluster == ApiCall("load_incluster_config", c.answers[InCluster],
                                <<InCluster>>)
           tried == IF c.answers[first] = "ConfigException"
                    THEN <<kube, incluster>> ELSE <<kube>>
           loaded == Last(tried).how = "ok"
       IN  /\ trace' = [trace EXCEPT ![p] = @ \o tried]
           /\ locals' = [locals EXCEPT ![p].clients = loaded]
           /\ pc' = [pc EXCEPT ![p] = IF loaded THEN "done" ELSE "raised"]
    /\ UNCHANGED <<clusterVars, hostVars, cfg, result, elapsed, waitEnd,
                   progress_callback>>

LoadInit ==
    /\ Holds({})
    /\ \E path \in {NoPath, ExplicitPath}, exists \in SUBSET ConfigFiles,
          answers \in [ConfigSources -> LoadAnswers] :
          cfg = [p \in Procs |-> LoadArgs(path, exists, answers)]
    /\ pc = [p \in Procs |-> IF p = "first" THEN "load" ELSE "idle"]
    /\ progress_callback = [p \in Procs |-> NoSink]
    /\ Fresh

LoadNext == \E p \in Procs : _load_k3s_config(p)

LoadSpec == LoadInit /\ [][LoadNext]_vars

(***************************************************************************)
(* The HTTP API (src/src/k7/api/main.py).  A request is matched against    *)
(* the routes in the order they were registered; the route's dependency    *)
(* verify_api_key reads, purges and writes the key store file; then the    *)
(* handler runs.  The store file is a set of entries, one per key hash.    *)
(* The handlers that create, delete, execute and install are followed up   *)
(* to their entry: what they do in the cluster is K7Core, modelled above.  *)
(***************************************************************************)
\* The last reading of the clock.
MaxNow == 3
\* The first reading of the clock.
StartTime == 1

\* An integer field of a store entry that may be null.
NoInt == [int |-> FALSE, at |-> 0]
IntAt(n) == [int |-> TRUE, at |-> n]

\* hashlib.sha256(token.encode()).hexdigest(): one hash per token
Sha256(token) == <<"sha256">> \o token

KeyEntry(token, expires) ==
    [hash |-> Sha256(token), name |-> token, expires |-> expires, last_used |-> NoInt]

\* (mutant) no entry is ever taken for expired
Expired_never(entry, now_ts) == FALSE

\* isinstance(exp, int) and now_ts > exp
Expired(entry, now_ts) == entry.expires.int /\ now_ts > entry.expires.at

\* load_api_keys: the entries read, with the expired ones purged
Purged(data, now_ts) == {entry \in data : ~Expired(entry, now_ts)}

LowerStr(s) == [i \in 1..Len(s) |-> Lower(s[i])]

StartsWith(s, prefix) == Len(s) >= Len(prefix) /\ SubSeq(s, 1, Len(prefix)) = prefix

Bearer == <<"b", "e", "a", "r", "e", "r", " ">>

\* The token of a request: X-API-Key if it is not blank, else what follows
\* "bearer " in Authorization; empty when there is none.
TokenOf(req) ==
    IF req.x_api_key.some /\ Strip(req.x_api_key.list) # <<>>
    THEN Strip(req.x_api_key.list)
    ELSE IF req.authorization.some
            /\ StartsWith(LowerStr(req.authorization.list), Bearer)
    THEN Strip(SubSeq(req.authorization.list, 8, Len(req.authorization.list)))
    ELSE <<>>

Route(method, path, handler, protected) ==
    [method |-> method, path |-> path, handler |-> handler, protected |-> protected]

\* A path parameter: it matches any one segment.
NameParam == "{name}"

SandboxesPath == <<"api", "v1", "sandboxes">>

\* The routes of the app, in the order of their decorators.
Routes ==
    << Route("GET", <<>>, "root", FALSE),
       Route("GET", <<"health">>, "health", FALSE),
       Route("POST", SandboxesPath, "create_sandbox", TRUE),
       Route("GET", SandboxesPath, "list_sandboxes", TRUE),
       Route("GET", SandboxesPath \o <<NameParam>>, "get_sandbox", TRUE),
       Route("DELETE", SandboxesPath \o <<NameParam>>, "delete_sandbox", TRUE),
       Route("DELETE", SandboxesPath, "delete_all_sandboxes", TRUE),
       Route("POST", SandboxesPath \o <<NameParam, "exec">>, "exec_command", TRUE),
       Route("POST", <<"api", "v1", "install">>, "install_node", TRUE),
       Route("GET", SandboxesPath \o <<"metrics">>, "get_sandbox_metrics", TRUE) >>

PathMatches(pattern, path) ==
    /\ Len(pattern) = Len(path)
    /\ \A i \in 1..Len(path) : pattern[i] = NameParam \/ pattern[i] = path[i]

\* The routes that match the path and the method, and the path alone.
FullMatches(req) ==
    {i \in 1..Len(Routes) :
        PathMatches(Routes[i].path, req.path) /\ Routes[i].method = req.method}
PartialMatches(req) == {i \in 1..Len(Routes) : PathMatches(Routes[i].path, req.path)}

Least(S) == CHOOSE i \in S : \A j \in S : i <= j

NoRoute == Route("", <<>>, "none", FALSE)

\* What a request got: the status, the handler that was entered, the detail.
Response(status, handler, detail) ==
    [status |-> status, handler |-> handler, detail |-> detail]
NoHandler == "none"
NoResponse == Response(0, NoHandler, "pending")

Request(method, path, x_api_key, authorization, issued) ==
    [name |-> "a", method |-> method, path |-> path, x_api_key |-> x_api_key,
     authorization |-> authorization, issued |-> issued]

\* The local variables of a request; those of verify_api_key among them.
NoApiLocals == [route |-> NoRoute, api_keys |-> {}, valid_hash |-> <<>>, now_ts |-> 0]

Responds(p, response) ==
    /\ result' = [result EXCEPT ![p] = response]
    /\ pc' = [pc EXCEPT ![p] = "responded"]

\* The router: the first route in registration order that matches path and
\* method gets the request; a path that only matches under another method is
\* answered 405, no match 404.
Dispatch(p) ==
    /\ pc[p] = "request"
    /\ LET req == cfg[p]
       IN  IF FullMatches(req) # {}
           THEN /\ locals' = [locals EXCEPT ![p].route = Routes[Least(FullMatches(req))]]
                /\ pc' = [pc EXCEPT ![p] =
                        IF Routes[Least(FullMatches(req))].protected
                        THEN "verify" ELSE "handler"]
                /\ UNCHANGED result
           ELSE /\ Responds(p, Response(IF PartialMatches(req) # {} THEN 405 ELSE 404,
                                        NoHandler, "no route"))
                /\ UNCHANGED locals
    /\ UNCHANGED <<clusterVars, cfg, trace, elapsed, waitEnd, progress_callback,
                   api_keys, now, container>>

\* verify_api_key up to the expiry check: the token; load_api_keys, which
\* writes the store back when it purged an entry; the lookup by hash; the
\* second reading of the clock.
VerifyLoad(p) ==
    /\ pc[p] = "verify"
    /\ LET token == TokenOf(cfg[p])
           data == Purged(api_keys, now)
           found == {entry \in data : entry.hash = Sha256(token)}
       IN  IF token = <<>>
           THEN /\ Responds(p, Response(401, NoHandler, "Missing API key"))
                /\ UNCHANGED <<locals, api_keys, now>>
           ELSE /\ api_keys' = data
                /\ IF found = {}
                   THEN /\ Responds(p, Response(401, NoHandler, "Invalid API key"))
                        /\ UNCHANGED <<locals, now>>
                   ELSE \E now_ts \in {now, IF now < MaxNow THEN now + 1 ELSE now} :
                           /\ now' = now_ts
                           /\ IF \E entry \in found : Expired(entry, now_ts)
                              THEN /\ Responds(p, Response(401, NoHandler,
                                                           "API key expired"))
                                   /\ UNCHANGED locals
                              ELSE /\ locals' = [locals EXCEPT
                                          ![p].api_keys = data,
                                          ![p].valid_hash = Sha256(token),
                                          ![p].now_ts = now_ts]
                                   /\ pc' = [pc EXCEPT ![p] = "save"]
                                   /\ UNCHANGED result
    /\ UNCHANGED <<clusterVars, cfg, trace, elapsed, waitEnd, progress_callback,
                   container>>

\* api_keys[valid_hash]["last_used"] = now_ts; save_api_keys(api_keys): the
\* store as this request read it replaces the file.
VerifySave(p) ==
    /\ pc[p] = "save"
    /\ api_keys' = {IF entry.hash = locals[p].valid_hash
                    THEN [entry EXCEPT !.last_used = IntAt(locals[p].now_ts)]
                    ELSE entry : entry \in locals[p].api_keys}
    /\ pc' = [pc EXCEPT ![p] = "handler"]
    /\ UNCHANGED <<clusterVars, cfg, trace, result, elapsed, waitEnd,
                   progress_callback, locals, now, container>>

\* The names list_sandboxes gives the handler: those of the workloads, or
\* nothing when the listing failed.
Listings == {{o.name : o \in deployments}, {}}

\* The handler of the route runs.  get_sandbox looks its path parameter up
\* in the listing; the handlers that change the cluster are entered only.
Handler(p) ==
    /\ pc[p] = "handler"
    /\ LET route == locals[p].route
           h == route.handler
       IN  CASE h \in {"root", "health", "list_sandboxes", "get_sandbox_metrics"} ->
                    Responds(p, Response(200, h, "data"))
             [] h = "get_sandbox" ->
                    \E items \in Listings :
                        Responds(p, IF cfg[p].path[Len(cfg[p].path)] \in items
                                    THEN Response(200, h, "data")
                                    ELSE Response(404, h, "not found"))
             [] OTHER -> Responds(p, Response(0, h, "entered"))
    /\ UNCHANGED <<clusterVars, cfg, trace, elapsed, waitEnd, progress_callback,
                   locals, api_keys, now, container>>

\* A second passes.
Tick ==
    /\ now < MaxNow
    /\ \E p \in Procs : pc[p] \in {"request", "verify", "save", "handler"}
    /\ now' = now + 1
    /\ UNCHANGED <<clusterVars, cfg, pc, trace, result, elapsed, waitEnd,
                   progress_callback, locals, api_keys, container>>

ApiStep(p) == Dispatch(p) \/ VerifyLoad(p) \/ VerifySave(p) \/ Handler(p)

\* Tokens: one of a key that is good or runs out while the model runs, one
\* of a key that ran out before, one that was never issued.
GoodToken == <<"K">>
OldToken == <<"X">>
UnknownToken == <<"U">>

KeyStores ==
    {{KeyEntry(GoodToken, e)} \cup old :
        e \in {NoInt, IntAt(StartTime), IntAt(MaxNow)},
        old \in {{}, {KeyEntry(OldToken, IntAt(StartTime - 1))}}}
    \cup {{}}

XApiKeys ==
    {None, Some(<<>>), Some(<<" ">>), Some(GoodToken), Some(<<" ">> \o GoodToken),
     Some(OldToken), Some(UnknownToken)}

Authorizations ==
    {None,
     Some(<<"B", "e", "a", "r", "e", "r", " ">> \o GoodToken),
     Some(<<"b", "e", "a", "r", "e", "r", " ">> \o OldToken),
     Some(<<"B", "a", "s", "i", "c", " ">> \o GoodToken),
     Some(<<"B", "e", "a", "r", "e", "r", " ">>)}

Paths ==
    {<<"health">>, SandboxesPath, SandboxesPath \o <<"a">>,
     SandboxesPath \o <<"metrics">>, <<"api", "v1", "keys">>}

Methods == {"GET", "DELETE"}

\* The sandboxes in the cluster: none, "a", one that is named metrics, both.
SandboxSets ==
    {{[name |-> n, by |-> Preexisting, env_from |-> FALSE] : n \in names} :
        names \in SUBSET {"a", "metrics"}}

\* One request of any shape next to a request with a good key, or alone.
ApiInit ==
    /\ deployments \in SandboxSets
    /\ secrets = {}
    /\ egressPols = {}
    /\ ingressPols = {}
    /\ api_keys \in KeyStores
    /\ now = StartTime
    /\ container = NoContainer
    /\ \E m \in Methods, path \in Paths, k \in XApiKeys, a \in Authorizations :
          cfg = [p \in Procs |->
                    IF p = "first" THEN Request(m, path, k, a, api_keys)
                    ELSE Request("GET", SandboxesPath, Some(GoodToken), None, api_keys)]
    /\ pc \in [Procs -> {"request", "idle"}]
    /\ pc["first"] = "request"
    /\ trace = [p \in Procs |-> <<>>]
    /\ result = [p \in Procs |-> NoResponse]
    /\ elapsed = [p \in Procs |-> 0]
    /\ waitEnd = [p \in Procs |-> "none"]
    /\ progress_callback = [p \in Procs |-> NoSink]
    /\ locals = [p \in Procs |-> NoApiLocals]

ApiNext == Tick \/ \E p \in Procs : ApiStep(p)

ApiSpec == ApiInit /\ [][ApiNext]_vars

(***************************************************************************)
(* list_sandboxes and delete_all_sandboxes on a cluster with workloads in  *)
(* two namespaces, of which some are sandboxes by their runtime class,     *)
(* some by their label, and some are no sandboxes.                         *)
(***************************************************************************)
\* namespace=None, or the empty string
NoNamespace == ""

Workload(name, namespace, runtime_class_name, labels) ==
    [name |-> name, by |-> Preexisting, env_from |-> FALSE, namespace |-> namespace,
     runtime_class_name |-> runtime_class_name, labels |-> labels]

\* A sandbox as create_sandbox makes it; a workload that is a sandbox by its
\* label only; a workload that is none; a sandbox in another namespace.
Workloads ==
    {Workload("a", "default", "kata", {<<"app", "a">>, <<"runtime", "kata">>}),
     Workload("b", "default", "runc", {<<"runtime", "kata">>}),
     Workload("c", "default", "runc", {<<"runtime", "runc">>}),
     Workload("d", "other", "kata", {})}

\* (mutant) the label alone does not make a sandbox
IsKata_classOnly(o) == o.runtime_class_name = "kata"

\* runtime_class_name == "kata" or labels.get("runtime") == "kata"
IsKata(o) == o.runtime_class_name = "kata" \/ <<"runtime", "kata">> \in o.labels

\* list_namespaced_deployment(namespace) if namespace, else
\* list_deployment_for_all_namespaces()
Listed(namespace) ==
    IF namespace # NoNamespace
    THEN {o \in deployments : o.namespace = namespace}
    ELSE deployments

ListOp(namespace) ==
    IF namespace # NoNamespace
    THEN "list_namespaced_deployment" ELSE "list_deployment_for_all_namespaces"

\* _get_kata_sandboxes: the sandboxes among the workloads listed
_get_kata_sandboxes(namespace) == {o \in Listed(namespace) : IsKata(o)}

\* The orders the cluster may list a set of workloads in.
Orders(S) == {order \in [1..Cardinality(S) -> S] : Range(order) = S}

\* The answers of a list call.
ListAnswers == {"ok", "error", "exception"}

SandboxInfo(name, namespace, status, ready) ==
    [name |-> name, namespace |-> namespace, status |-> status, ready |-> ready]

\* A pod as list_namespaced_pod gives it: its phase, none when empty, and
\* whether it has a condition Ready with status True.
Pod(phase, ready) == [phase |-> phase, ready |-> ready]

\* The answers of the pod lookup: an exception, no pod, or a first pod.
PodAnswers ==
    {[how |-> "exception", items |-> <<>>], [how |-> "ok", items |-> <<>>]}
    \cup {[how |-> "ok", items |-> <<Pod(phase, ready)>>] :
             phase \in {"Running", "Pending", ""}, ready \in BOOLEAN}

\* (mutant) a failed lookup reported like a sandbox without pods
PodStatus_errorAsNoPods(name, namespace, answer) ==
    IF answer.how = "ok" /\ answer.items # <<>>
    THEN SandboxInfo(name, namespace,
                     IF answer.items[1].phase # "" THEN answer.items[1].phase
                     ELSE "Unknown",
                     IF answer.items[1].ready THEN "True" ELSE "False")
    ELSE SandboxInfo(name, namespace, "No Pods", "False")

\* The entry of one sandbox: status and ready of its first pod, "No Pods"
\* without a pod, "Error" when the lookup raised.
PodStatus(name, namespace, answer) ==
    IF answer.how = "exception" THEN SandboxInfo(name, namespace, "Error", "False")
    ELSE IF answer.items # <<>>
    THEN SandboxInfo(name, namespace,
                     IF answer.items[1].phase # "" THEN answer.items[1].phase
                     ELSE "Unknown",
                     IF answer.items[1].ready THEN "True" ELSE "False")
    ELSE SandboxInfo(name, namespace, "No Pods", "False")

ListArgs(namespace) == [name |-> "*", namespace |-> namespace]

\* The locals of list_sandboxes and of delete_all_sandboxes.
NoListLocals ==
    [clients |-> FALSE, errors |-> <<>>, stdout_data |-> <<>>, stderr_data |-> <<>>,
     todo |-> <<>>, results |-> <<>>]

\* list_sandboxes returns sandbox_list, or [] from its except clause.
ListReturns(p, entries, sandbox_list) ==
    /\ trace' = [trace EXCEPT ![p] =
            @ \o entries \o <<ReturnEntry("list_sandboxes", "returned")>>]
    /\ pc' = [pc EXCEPT ![p] = "done"]
    /\ result' = [result EXCEPT ![p] = sandbox_list]

\* The clients; _get_kata_sandboxes; the loop is entered, or the list is
\* returned when the loop has nothing to do or the try block was left.
ListWorkloads(p) ==
    /\ pc[p] = "list"
    /\ \E loaded \in BOOLEAN :
          IF ~loaded
          THEN /\ ListReturns(p, <<ApiCall("load_kube_config", "exception", <<>>)>>, <<>>)
               /\ UNCHANGED locals
          ELSE \E answer \in ListAnswers,
                  order \in Orders(_get_kata_sandboxes(cfg[p].namespace)) :
                  LET call == ApiCall(ListOp(cfg[p].namespace), answer,
                                      IF answer = "ok"
                                      THEN [i \in 1..Len(order) |-> order[i].name]
                                      ELSE <<>>)
                  IN  IF answer # "ok" \/ order = <<>>
                      THEN /\ ListReturns(p, <<call>>, <<>>)
                           /\ UNCHANGED locals
                      ELSE /\ trace' = [trace EXCEPT ![p] = Append(@, call)]
                           /\ locals' = [locals EXCEPT ![p].clients = TRUE,
                                                       ![p].todo = order]
                           /\ pc' = [pc EXCEPT ![p] = "pods"]
                           /\ UNCHANGED result
    /\ UNCHANGED <<clusterVars, hostVars, cfg, elapsed, waitEnd, progress_callback>>

\* One pass of the loop: the pod lookup of the next sandbox and its entry;
\* after the last sandbox, the return.
ListPods(p) ==
    /\ pc[p] = "pods"
    /\ \E answer \in PodAnswers :
          LET o == locals[p].todo[1]
              call == ApiCall("list_namespaced_pod", answer.how, <<o.name>>)
              sandbox_list == Append(locals[p].results,
                                     PodStatus(o.name, o.namespace, answer))
              rest == Tail(locals[p].todo)
          IN  /\ locals' = [locals EXCEPT ![p].todo = rest, ![p].results = sandbox_list]
              /\ IF rest = <<>>
                 THEN ListReturns(p, <<call>>, sandbox_list)
                 ELSE /\ trace' = [trace EXCEPT ![p] = Append(@, call)]
                      /\ UNCHANGED <<pc, result>>
    /\ UNCHANGED <<clusterVars, hostVars, cfg, elapsed, waitEnd, progress_callback>>

ListStep(p) == ListWorkloads(p) \/ ListPods(p)

ListInit ==
    /\ deployments \in SUBSET Workloads
    /\ secrets = {}
    /\ egressPols = {}
    /\ ingressPols = {}
    /\ \E namespace \in {NoNamespace, "default", "other"} :
          cfg = [p \in Procs |-> ListArgs(namespace)]
    /\ pc = [p \in Procs |-> IF p = "first" THEN "list" ELSE "idle"]
    /\ trace = [p \in Procs |-> <<>>]
    /\ result = [p \in Procs |-> <<>>]
    /\ elapsed = [p \in Procs |-> 0]
    /\ waitEnd = [p \in Procs |-> "none"]
    /\ progress_callback = [p \in Procs |-> NoSink]
    /\ locals = [p \in Procs |-> NoListLocals]
    /\ HostIdle

ListNext == \E p \in Procs : ListStep(p)

ListSpec == ListInit /\ [][ListNext]_vars

DeleteAllArgs(namespace) == [name |-> "*", all_in |-> namespace]

\* sandboxes = self._get_kata_sandboxes(namespace); results = []; the loop
\* is entered, or the report is returned when there is nothing to delete
DeleteAllEnumerate(p) ==
    /\ pc[p] = "delete_all"
    /\ \E loaded \in BOOLEAN :
          IF ~loaded
          THEN DeleteAllCaught(p, Cluster,
                               <<ApiCall("load_kube_config", "exception", <<>>)>>,
                               <<"Could not load Kubernetes config">>)
          ELSE \E answer \in ListAnswers,
                  order \in Orders(_get_kata_sandboxes(cfg[p].all_in)) :
                  LET names == [i \in 1..Len(order) |-> order[i].name]
                      call == ApiCall(ListOp(cfg[p].all_in), answer,
                                      IF answer = "ok" THEN names ELSE <<>>)
                  IN  IF answer # "ok"
                      THEN DeleteAllCaught(p, Cluster, <<call>>, <<answer>>)
                      ELSE IF names = <<>>
                      THEN DeleteAllReturns(p, Cluster, <<call>>, <<>>)
                      ELSE /\ Becomes(Cluster)
                           /\ trace' = [trace EXCEPT ![p] = Append(@, call)]
                           /\ locals' = [locals EXCEPT ![p].clients = TRUE,
                                                       ![p].todo = names,
                                                       ![p].results = <<>>]
                           /\ pc' = [pc EXCEPT ![p] = "delete"]
                           /\ UNCHANGED result
    /\ UNCHANGED <<hostVars, cfg, elapsed, waitEnd, progress_callback>>

DeleteAllStep(p) == DeleteAllEnumerate(p) \/ DeleteStep(p)

\* delete_all_sandboxes for one of the two namespaces, on a cluster that
\* holds any of the workloads and some of the other objects of "a" and "b".
DeleteAllInit ==
    /\ deployments \in SUBSET Workloads
    /\ secrets = {[name |-> SecretName("a"), by |-> Preexisting,
                   string_data |-> {<<<<"O">>, <<"ld">>>>}]}
    /\ egressPols = {}
    /\ ingressPols = {[name |-> IngressName(n), by |-> Preexisting] : n \in {"a", "b"}}
    /\ \E namespace \in {"default", "other"} :
          cfg = [p \in Procs |-> DeleteAllArgs(namespace)]
    /\ pc = [p \in Procs |-> IF p = "first" THEN "delete_all" ELSE "idle"]
    /\ trace = [p \in Procs |-> <<>>]
    /\ result = [p \in Procs |-> NoResult]
    /\ elapsed = [p \in Procs |-> 0]
    /\ waitEnd = [p \in Procs |-> "none"]
    /\ progress_callback = [p \in Procs |-> NoSink]
    /\ locals = [p \in Procs |-> NoListLocals]
    /\ HostIdle

DeleteAllNext == \E p \in Procs : DeleteAllStep(p)

DeleteAllSpec == DeleteAllInit /\ [][DeleteAllNext]_vars

(***************************************************************************)
(* create_sandbox up to its secret, for an env file that was written from  *)
(* a map: one line K=V per entry, in the order of the entries.             *)
(***************************************************************************)
\* The longest key and the longest value tried.
MaxEnvLen == 2

KeyChars == {"K", "#", "=", " "}
ValueChars == {"v", " ", "\"", "'", "="}

\* The entries of a map: one entry with any non-empty key and any value,
\* alone or before or after the entry K=w.
EnvEntry(key, value) == <<key, value>>
EnvMaps ==
    LET others == {EnvEntry(k, v) : k \in SeqsUpTo(KeyChars, MaxEnvLen) \ {<<>>},
                                    v \in SeqsUpTo(ValueChars, MaxEnvLen)}
        fixed == EnvEntry(<<"K">>, <<"w">>)
    IN  {<<e>> : e \in others}
        \cup {<<e, fixed>> : e \in {o \in others : o[1] # fixed[1]}}
        \cup {<<fixed, e>> : e \in {o \in others : o[1] # fixed[1]}}

\* The file written from the entries: K=V, one line per entry.
Render(entries) ==
    [i \in 1..Len(entries) |-> entries[i][1] \o <<"=">> \o entries[i][2]]

EnvInit ==
    /\ Holds({})
    /\ \E entries \in EnvMaps :
          cfg = [p \in Procs |->
                    SandboxConfig("a", EnvFileOf(Render(entries)), None, NoLimits, NoScript)
                        @@ [env_map |-> entries]]
    /\ pc = [p \in Procs |-> IF p = "first" THEN "start" ELSE "idle"]
    /\ progress_callback = [p \in Procs |-> NoSink]
    /\ Fresh

EnvNext == \E p \in Procs : Validate(p) \/ CreateSecret(p)

EnvSpec == EnvInit /\ [][EnvNext]_vars

(***************************************************************************)
(* revoke_api_key of the command line next to the API server.  The command *)
(* and the server are two processes over the one key-store file: each      *)
(* reads the whole file into a dict of its own and writes the whole dict   *)
(* back.  The first process is a client of the server that sends requests  *)
(* one after the other, the second runs the command once.                  *)
(***************************************************************************)
\* How many requests the client sends after its first.
MaxRequests == 2

\* The argument of revoke_api_key.
RevokeArgs(name) == [name |-> name]

IsRevoke(p) == DOMAIN cfg[p] = {"name"}

\* What the command wrote with typer.echo.
Echo(text) == [echo |-> text]
RevokedMessage(name) == <<"API key '", name, "' revoked successfully.">>
NotFoundKeyMessage(name) == <<"API key '", name, "' not found.">>

\* The entries of the dict that carry the name; the loop takes the first.
Named(data, name) == {entry \in data : entry.name = name}

\* if not API_KEYS_FILE.exists(): return; api_keys = json.load(f); the search
\* for the name.  A file that is not there reads like one without entries.
RevokeLoad(p) ==
    /\ pc[p] = "revoke"
    /\ IF Named(api_keys, cfg[p].name) = {}
       THEN /\ pc' = [pc EXCEPT ![p] = "done"]
            /\ result' = [result EXCEPT ![p] =
                    Echo(IF api_keys = {} THEN <<"No API keys found.">>
                         ELSE NotFoundKeyMessage(cfg[p].name))]
            /\ UNCHANGED locals
       ELSE /\ pc' = [pc EXCEPT ![p] = "revoke_save"]
            /\ locals' = [locals EXCEPT
                    ![p].api_keys = api_keys,
                    ![p].valid_hash =
                        (CHOOSE entry \in Named(api_keys, cfg[p].name) : TRUE).hash]
            /\ UNCHANGED result
    /\ UNCHANGED <<clusterVars, cfg, trace, elapsed, waitEnd, progress_callback,
                   api_keys, now, container>>

\* del api_keys[key_to_remove]; json.dump(api_keys, f): the dict as the
\* command read it, less the entry, replaces the file.
RevokeSave(p) ==
    /\ pc[p] = "revoke_save"
    /\ api_keys' = {entry \in locals[p].api_keys : entry.hash # locals[p].valid_hash}
    /\ pc' = [pc EXCEPT ![p] = "done"]
    /\ result' = [result EXCEPT ![p] = Echo(RevokedMessage(cfg[p].name))]
    /\ UNCHANGED <<clusterVars, cfg, trace, elapsed, waitEnd, progress_callback,
                   locals, now, container>>

\* The command has run to its end and said it revoked the key.
Revoked(p) ==
    IsRevoke(p) /\ pc[p] = "done" /\ result[p] = Echo(RevokedMessage(cfg[p].name))

\* The client got its response and sends its next request, with the same
\* headers; the request notes whether a revoke had completed by then.
NextRequest(p) ==
    /\ pc[p] = "responded"
    /\ cfg[p].more > 0
    /\ cfg' = [cfg EXCEPT ![p].more = @ - 1,
                          ![p].issued = api_keys,
                          ![p].since_revoke = \E r \in Procs : Revoked(r)]
    /\ pc' = [pc EXCEPT ![p] = "request"]
    /\ result' = [result EXCEPT ![p] = NoResponse]
    /\ locals' = [locals EXCEPT ![p] = NoApiLocals]
    /\ UNCHANGED <<clusterVars, trace, elapsed, waitEnd, progress_callback,
                   api_keys, now, container>>

RevokeStep(p) == RevokeLoad(p) \/ RevokeSave(p) \/ ApiStep(p) \/ NextRequest(p)

\* A second key, which is not revoked.
OtherToken == <<"O">>

RevokeInit ==
    /\ deployments = {}
    /\ secrets = {}
    /\ egressPols = {}
    /\ ingressPols = {}
    /\ \E others \in SUBSET {KeyEntry(OtherToken, NoInt)} :
          api_keys = {KeyEntry(GoodToken, NoInt)} \cup others
    /\ now = StartTime
    /\ container = NoContainer
    /\ \E token \in {GoodToken, OtherToken}, name \in {GoodToken, UnknownToken} :
          cfg = [p \in Procs |->
                    IF p = "first"
                    THEN Request("GET", SandboxesPath, Some(token), None, api_keys)
                             @@ [more |-> MaxRequests, since_revoke |-> FALSE]
                    ELSE RevokeArgs(name)]
    /\ pc = [p \in Procs |-> IF p = "first" THEN "request" ELSE "revoke"]
    /\ trace = [p \in Procs |-> <<>>]
    /\ result = [p \in Procs |-> NoResponse]
    /\ elapsed = [p \in Procs |-> 0]
    /\ waitEnd = [p \in Procs |-> "none"]
    /\ progress_callback = [p \in Procs |-> NoSink]
    /\ locals = [p \in Procs |-> NoApiLocals]

RevokeNext == \E p \in Procs : RevokeStep(p)

RevokeSpec == RevokeInit /\ [][RevokeNext]_vars

(***************************************************************************)
(* delete_sandbox for the name of a workload of the namespace, sandbox or  *)
(* not, on a cluster that holds any of the workloads of the namespace.     *)
(***************************************************************************)
LocalWorkloads == {o \in Workloads : o.namespace = "default"}

DeleteAnyInit ==
    /\ deployments \in SUBSET LocalWorkloads
    /\ secrets = {[name |-> SecretName("a"), by |-> Preexisting,
                   string_data |-> {<<<<"O">>, <<"ld">>>>}]}
    /\ egressPols = {}
    /\ ingressPols = {[name |-> IngressName(n), by |-> Preexisting] : n \in {"a", "c"}}
    /\ \E o \in LocalWorkloads : cfg = [p \in Procs |-> DeleteArgs(o.name, 1)]
    /\ pc = [p \in Procs |-> IF p = "first" THEN "delete" ELSE "idle"]
    /\ progress_callback = [p \in Procs |-> NoSink]
    /\ Fresh

DeleteAnySpec == DeleteAnyInit /\ [][DeleteNext]_vars

(***************************************************************************)
(* A client that calls create_sandbox and, once it returned success, calls *)
(* list_sandboxes or delete_all_sandboxes: the first process is the create,*)
(* the second the call that follows it.  The cluster holds any of the      *)
(* other workloads beforehand.                                             *)
(***************************************************************************)
IsLister(p) == DOMAIN cfg[p] = {"name", "namespace"}

\* The call that follows the create is made.
BeginAfterCreate(q) ==
    /\ pc[q] = "after_create"
    /\ \E c \in Procs \ {q} : pc[c] = "done" /\ result[c].success
    /\ pc' = [pc EXCEPT ![q] = IF InDeleteAll(q) THEN "delete_all" ELSE "list"]
    /\ UNCHANGED <<clusterVars, hostVars, cfg, trace, result, elapsed, waitEnd,
                   progress_callback, locals>>

\* What is created: sandbox "a" in one of the two namespaces.
AfterShapes ==
    {SandboxConfig("a", e, w, GoodLimits, s) @@ [namespace |-> ns] :
        e \in {NoEnvFile, GoodEnvFile}, w \in {None, Some(<<>>)},
        s \in {NoScript, SomeScript}, ns \in {"default", "other"}}

AfterInit ==
    /\ deployments \in SUBSET {o \in Workloads : o.name # "a"}
    /\ secrets = {}
    /\ egressPols = {}
    /\ ingressPols = {}
    /\ \E creator \in AfterShapes,
          follower \in {ListArgs("default"), ListArgs("other"),
                        DeleteAllArgs("default"), DeleteAllArgs("other")} :
          /\ cfg = [p \in Procs |-> IF p = "first" THEN creator ELSE follower]
          /\ result = [p \in Procs |->
                          IF p = "first" \/ "all_in" \in DOMAIN follower
                          THEN NoResult ELSE <<>>]
    /\ pc = [p \in Procs |-> IF p = "first" THEN "start" ELSE "after_create"]
    /\ trace = [p \in Procs |-> <<>>]
    /\ elapsed = [p \in Procs |-> 0]
    /\ waitEnd = [p \in Procs |-> "none"]
    /\ progress_callback = [p \in Procs |-> WorkingSink]
    /\ locals = [p \in Procs |-> IF p = "first" THEN NoLocals ELSE NoListLocals]
    /\ HostIdle

AfterNext ==
    \E p \in Procs : Step(p) \/ BeginAfterCreate(p) \/ ListStep(p) \/ DeleteAllStep(p)

AfterSpec == AfterInit /\ [][AfterNext]_vars

(***************************************************************************)
(* The command `k7 create`: it builds the SandboxConfig from a config file *)
(* or from its options and hands it to create_sandbox.  The first process  *)
(* runs the command, the other makes no call.                              *)
(***************************************************************************)
\* -f/--file: not given, a path that names no file, a path to a config file
NoFile == "none"
MissingFile == "missing.yaml"
GivenFile == "given.yaml"

\* The arguments of the command, with what it finds on disk: whether the
\* working directory holds a k7.yaml, and what the config file read holds.
CliArgs(config, found, yaml, name, image, env_file, egress_whitelist, before_script, limits) ==
    [config |-> config, found |-> found, yaml |-> yaml, name |-> name,
     image |-> image, env_file |-> env_file, egress_whitelist |-> egress_whitelist,
     before_script |-> before_script, limits |-> limits]

\* if not config: the first of k7.yaml, k7.yml that exists
ConfigFile(a) ==
    IF a.config # NoFile THEN a.config
    ELSE IF a.found THEN "k7.yaml" ELSE NoFile

\* Python truth of an Optional[List[str]] option
Truthy(l) == l.some /\ l.list # <<>>

\* dict update: a key that is there keeps its place and takes the new value,
\* a new key goes to the end
UpdateLimits(base, over) ==
    LET Keys(d) == {d[i][1] : i \in 1..Len(d)}
        ValueIn(d, key) == (CHOOSE i \in 1..Len(d) : d[i][1] = key)
        IsNew(kv) == kv[1] \notin Keys(base)
    IN  [i \in 1..Len(base) |->
            IF base[i][1] \in Keys(over)
            THEN over[ValueIn(over, base[i][1])] ELSE base[i]]
        \o SelectSeq(over, IsNew)

\* SandboxConfig.from_yaml(config), then the options that were given put
\* over what the file says
FileConfig(a) ==
    [a.yaml EXCEPT
        !.name = IF a.name # "" THEN a.name ELSE @,
        !.env_file = IF a.env_file.given THEN a.env_file ELSE @,
        !.egress_whitelist = IF Truthy(a.egress_whitelist) THEN a.egress_whitelist ELSE @,
        !.before_script = IF a.before_script # "" THEN a.before_script ELSE @,
        !.limits = IF a.limits # <<>> THEN UpdateLimits(@, a.limits) ELSE @]

\* (mutant) the egress option handed on as it came
OptionConfig_egressAsGiven(a) ==
    SandboxConfig(a.name, a.env_file, a.egress_whitelist, a.limits, a.before_script)

\* SandboxConfig(name=name, ..., egress_whitelist=egress_whitelist or [], ...)
OptionConfig(a) ==
    SandboxConfig(a.name, a.env_file,
                  IF Truthy(a.egress_whitelist) THEN a.egress_whitelist ELSE Some(<<>>),
                  a.limits, a.before_script)

\* raise typer.BadParameter(...): the command ends without a call
BadParameter(p, message) ==
    /\ pc' = [pc EXCEPT ![p] = "done"]
    /\ result' = [result EXCEPT ![p] = Failure(message)]
    /\ UNCHANGED cfg

\* The command up to core.create_sandbox(sandbox_config, ...): cfg[p] becomes
\* the config handed over; the arguments stay in the locals.
create(p) ==
    /\ pc[p] = "cli"
    /\ LET a == locals[p].args
       IN  IF ConfigFile(a) # NoFile
           THEN IF ConfigFile(a) = MissingFile
                THEN BadParameter(p, <<"Config file ", MissingFile, " does not exist">>)
                ELSE /\ cfg' = [cfg EXCEPT ![p] = FileConfig(a)]
                     /\ pc' = [pc EXCEPT ![p] = "start"]
                     /\ UNCHANGED result
           ELSE IF a.name = "" \/ a.image = ""
                THEN BadParameter(p, <<"Name and image must be provided via CLI or k7.yaml">>)
                ELSE /\ cfg' = [cfg EXCEPT ![p] = OptionConfig(a)]
                     /\ pc' = [pc EXCEPT ![p] = "start"]
                     /\ UNCHANGED result
    /\ UNCHANGED <<clusterVars, hostVars, trace, elapsed, waitEnd, progress_callback,
                   locals>>

\* What a config file holds: sandbox "y" with any egress_whitelist.
YamlShapes ==
    {SandboxConfig("y", NoEnvFile, w, l, NoScript) :
        w \in {None, Some(<<>>), Some(<<"10.0.0.0/8">>)},
        l \in {NoLimits, << <<"cpu", <<"1">> >> >>}}

\* --egress not given (None, or the empty list of a repeatable option), or
\* given once.
EgressOptions == {None, Some(<<>>), Some(<<"192.168.0.0/16">>)}

CliShapes ==
    {CliArgs(config, found, yaml, name, "alpine", NoEnvFile, egress, script, limits) :
        config \in {NoFile, MissingFile, GivenFile}, found \in BOOLEAN,
        yaml \in YamlShapes, name \in {"", "a"}, egress \in EgressOptions,
        script \in {NoScript, SomeScript}, limits \in {NoLimits, GoodLimits}}

CliInit ==
    /\ \E kinds \in {{}, {"egress"}} : Holds(kinds)
    /\ \E a \in CliShapes :
          /\ cfg = [p \in Procs |-> a]
          /\ locals = [p \in Procs |-> NoLocals @@ [args |-> a]]
    /\ pc = [p \in Procs |-> IF p = "first" THEN "cli" ELSE "idle"]
    /\ trace = [p \in Procs |-> <<>>]
    /\ result = [p \in Procs |-> NoResult]
    /\ elapsed = [p \in Procs |-> 0]
    /\ waitEnd = [p \in Procs |-> "none"]
    /\ progress_callback = [p \in Procs |-> WorkingSink]
    /\ HostIdle

CliNext == \E p \in Procs : create(p) \/ Step(p)

CliSpec == CliInit /\ [][CliNext]_vars

(***************************************************************************)
(* Reading a call's trace.                                                 *)
(***************************************************************************)
IsCall(e) == e.kind = "call"
IsEvent(e) == e.kind = "emit"

Calls(p) == SelectSeq(trace[p], IsCall)
Events(p) == SelectSeq(trace[p], IsEvent)

CallsOf(p, op) == {i \in 1..Len(trace[p]) : IsCall(trace[p][i]) /\ trace[p][i].what = op}

Done(p) == pc[p] = "done"
Succeeded(p) == Done(p) /\ result[p].success
Failed(p) == Done(p) /\ ~result[p].success

\* The cluster answered some call of p with an error other than 409, or the
\* cluster could not be reached at all.
Faulted(p) ==
    \/ \E i \in 1..Len(trace[p]) :
          IsCall(trace[p][i]) /\ trace[p][i].how \in {"error", "exception"}
    \/ result[p].error = <<"Could not load Kubernetes config">>

Got409(p) == \E i \in 1..Len(trace[p]) : IsCall(trace[p][i]) /\ trace[p][i].how = "409"

\* The spec passes the checks made before the first cluster call.
PassesValidation(c) ==
    /\ _validate_limits(c.limits) = Returned(TRUE)
    /\ (c.env_file.given /\ c.env_file.exists) => ParseEnv(c.env_file.lines) # {}

WorkloadWasThere(name) ==
    \E o \in deployments : o.name = name /\ o.by = Preexisting

(***************************************************************************)
(* C1.  Two concurrent creates of the same (namespace, name), both with    *)
(* specs that reach the cluster, on a cluster that did not hold the        *)
(* workload and answers with no error other than 409: when both have       *)
(* returned, exactly one has returned success and the other has returned   *)
(* failure with error `Sandbox <name> already exists`.                     *)
(***************************************************************************)
SameNameRace ==
    /\ \A p, q \in Procs : cfg[p].name = cfg[q].name
    /\ \A p \in Procs : PassesValidation(cfg[p]) /\ ~Faulted(p)
    /\ \A p \in Procs : ~WorkloadWasThere(cfg[p].name)

C1_ExactlyOneCreateWins ==
    (SameNameRace /\ \A p \in Procs : Done(p)) =>
        \E w \in Procs :
            /\ result[w].success
            /\ \A l \in Procs \ {w} :
                  /\ ~result[l].success
                  /\ result[l].error = AlreadyExists(cfg[l].name)

\* Both have returned; the loser had already created its secret when it lost.
C1_Witness ==
    /\ SameNameRace
    /\ \A p \in Procs : Done(p)
    /\ \E l \in Procs :
          /\ result[l].error = AlreadyExists(cfg[l].name)
          /\ \E i \in CallsOf(l, "create_secret") : trace[l][i].how = "created"
          /\ \A w \in Procs \ {l} : result[w].success

(***************************************************************************)
(* C2.  Within one create the cluster calls come in a fixed order: create  *)
(* secret, create workload, the pod polls, create egress policy, create    *)
(* ingress-deny policy.  Every call is a round trip that has returned      *)
(* before the call logs it, so the order of the log is the order of issue. *)
(***************************************************************************)
CallRank(op) ==
    CASE op = "create_secret" -> 1
      [] op = "create_deployment" -> 2
      [] op = "list_pods" -> 3
      [] op = "create_egress" -> 4
      [] op = "create_ingress" -> 5

C2_CallsInFixedOrder ==
    \A p \in Procs :
        LET calls == Calls(p)
        IN  \A i, j \in 1..Len(calls) :
               i < j =>
                  \/ CallRank(calls[i].what) < CallRank(calls[j].what)
                  \/ calls[i].what = "list_pods" /\ calls[j].what = "list_pods"

\* A call that made all five kinds of cluster call.
C2_Witness ==
    \E p \in Procs :
        /\ Succeeded(p)
        /\ \A op \in {"create_secret", "create_deployment", "list_pods",
                      "create_egress", "create_ingress"} : CallsOf(p, op) # {}

(***************************************************************************)
(* C3.  The stages of the events a create emits, consecutive duplicates    *)
(* collapsed, are a prefix of provisioning, before_script,                 *)
(* network_lockdown, complete, optionally followed by one final `error`.   *)
(***************************************************************************)
StageOrder == <<"provisioning", "before_script", "network_lockdown", "complete">>

RECURSIVE Collapse(_)
Collapse(s) ==
    IF Len(s) <= 1 THEN s
    ELSE IF s[Len(s)] = s[Len(s) - 1] THEN Collapse(DropLast(s, 1))
    ELSE Append(Collapse(DropLast(s, 1)), Last(s))

Stages(p) == [i \in 1..Len(Events(p)) |-> Events(p)[i].what]

IsPrefix(s, t) == Len(s) <= Len(t) /\ s = SubSeq(t, 1, Len(s))

C3_StagesInOrder ==
    \A p \in Procs :
        LET st == Collapse(Stages(p))
        IN  \/ IsPrefix(st, StageOrder)
            \/ /\ st # <<>>
               /\ Last(st) = "error"
               /\ IsPrefix(DropLast(st, 1), StageOrder)

\* A call that failed in the lockdown stage on an exception: three stages,
\* then the error stage.
C3_Witness ==
    \E p \in Procs :
        Collapse(Stages(p)) =
            <<"provisioning", "before_script", "network_lockdown", "error">>

(***************************************************************************)
(* C4.  A create that returns success and got no 409 emitted exactly:      *)
(* provisioning.start, provisioning.done; before_script.skipped without a  *)
(* script, else before_script.waiting, before_script.done;                 *)
(* network_lockdown.skipped without a whitelist, else                      *)
(* network_lockdown.applying, network_lockdown.done; complete.success.     *)
(***************************************************************************)
ExpectedEvents(c) ==
    <<Event("provisioning", "start"), Event("provisioning", "done")>>
    \o (IF c.before_script = ""
        THEN <<Event("before_script", "skipped")>>
        ELSE <<Event("before_script", "waiting"), Event("before_script", "done")>>)
    \o (IF c.egress_whitelist = None
        THEN <<Event("network_lockdown", "skipped")>>
        ELSE <<Event("network_lockdown", "applying"),
               Event("network_lockdown", "done")>>)
    \o <<Event("complete", "success")>>

C4_SuccessEventSequence ==
    \A p \in Procs :
        (Succeeded(p) /\ ~Got409(p)) => Events(p) = ExpectedEvents(cfg[p])

\* A success without 409, with a script and an empty whitelist (scenario S2).
C4_Witness ==
    \E p \in Procs :
        /\ Succeeded(p) /\ ~Got409(p)
        /\ cfg[p].before_script # ""
        /\ cfg[p].egress_whitelist = Some(<<>>)

(***************************************************************************)
(* C5.  Whenever a create has returned success, its create call for        *)
(* <name>-deny-ingress was answered `created` or 409, and (no delete being *)
(* part of this specification) the policy is in the cluster, whatever the  *)
(* whitelist and the script.                                               *)
(***************************************************************************)
C5_IngressDeniedOnSuccess ==
    \A p \in Procs :
        Succeeded(p) =>
            /\ \E i \in CallsOf(p, "create_ingress") :
                  /\ trace[p][i].how \in {"created", "409"}
                  /\ trace[p][i].body = <<IngressName(cfg[p].name)>>
            /\ Exists(ingressPols, IngressName(cfg[p].name))

\* Success with open egress and no script; and success on a 409 answer.
C5_Witness ==
    /\ \E p \in Procs :
          /\ Succeeded(p)
          /\ cfg[p].egress_whitelist = None /\ cfg[p].before_script = ""
          /\ \E i \in CallsOf(p, "create_ingress") : trace[p][i].how = "409"
          /\ Exists(ingressPols, IngressName(cfg[p].name))

(***************************************************************************)
(* C6.  A create issues the create call for <name>-netpol only if the      *)
(* whitelist is not None, and once it is past the egress stage it has      *)
(* issued it exactly once if the whitelist is not None.  The policy of a   *)
(* whitelist of n CIDRs has n+1 rules: the n CIDR rules in the order of    *)
(* the list, then the DNS rule (one rule, the DNS rule, for the empty      *)
(* list).                                                                  *)
(***************************************************************************)
PastEgressStage(p) ==
    \/ pc[p] \in {"ingress", "complete"}
    \/ Succeeded(p)
    \/ CallsOf(p, "create_ingress") # {}

IsRulesOf(rules, list) ==
    /\ Len(rules) = Len(list) + 1
    /\ \A i \in 1..Len(list) :
          rules[i].to = <<"ipBlock", list[i]>> /\ rules[i].ports = {}
    /\ rules[Len(rules)].to = <<"kube-system", "kube-dns">>
    /\ rules[Len(rules)].ports = {<<"UDP", 53>>, <<"TCP", 53>>}

C6_EgressTriState ==
    \A p \in Procs :
        LET w == cfg[p].egress_whitelist
            issued == CallsOf(p, "create_egress")
        IN  /\ w = None => issued = {}
            /\ (w # None /\ PastEgressStage(p)) => Cardinality(issued) = 1
            /\ \A i \in issued : IsRulesOf(trace[p][i].body, w.list)
            /\ \A o \in egressPols : o.by = p => IsRulesOf(o.rules, w.list)

\* A whitelist of two different CIDRs: three rules went to the cluster.
C6_Witness ==
    \E p \in Procs :
        /\ Len(cfg[p].egress_whitelist.list) = 2
        /\ cfg[p].egress_whitelist.list[1] # cfg[p].egress_whitelist.list[2]
        /\ \E o \in egressPols : o.by = p /\ Len(o.rules) = 3

(***************************************************************************)
(* C7.  The egress policy create is issued only after the init-wait has    *)
(* ended (before_script.done or before_script.skipped was emitted), and    *)
(* the policy a call created never exists while that call is still         *)
(* provisioning or waiting for the init script.                            *)
(***************************************************************************)
InitWaitEnded(e) ==
    IsEvent(e) /\ e.what = "before_script" /\ e.how \in {"done", "skipped"}

C7_EgressAfterInitWait ==
    \A p \in Procs :
        /\ \A j \in CallsOf(p, "create_egress") :
              \E i \in 1..(j - 1) : InitWaitEnded(trace[p][i])
        /\ (\E o \in egressPols : o.by = p) =>
              pc[p] \notin {"start", "secret", "deploy", "initwait", "poll"}

\* The policy was created after a wait that ended because the pod was Ready.
C7_Witness ==
    \E p \in Procs :
        /\ waitEnd[p] = "ready"
        /\ \E o \in egressPols : o.by = p

(***************************************************************************)
(* C8.  With a script and a pod that never becomes Ready, the init-wait    *)
(* loop makes no poll once 300 seconds have elapsed, two polls are at      *)
(* least 2 seconds apart (so there are at most 150), and a call that left  *)
(* the loop at the ceiling goes on through the egress and ingress stages   *)
(* and returns success unless the cluster answers one of its later calls   *)
(* with an error: the ceiling itself is never a failure.  A call that is   *)
(* in the loop always comes to return (checked under FairSpec).            *)
(***************************************************************************)
C8_CeilingKept ==
    \A p \in Procs :
        LET polls == SelectSeq(Calls(p), LAMBDA e : e.what = "list_pods")
        IN  /\ \A i \in 1..Len(polls) : polls[i].body[1] < 300
            /\ \A i \in 1..(Len(polls) - 1) :
                  polls[i + 1].body[1] >= polls[i].body[1] + 2
            /\ waitEnd[p] = "timeout" =>
                  /\ cfg[p].before_script # ""
                  /\ \A i \in 1..Len(polls) : polls[i].how = "not_ready"
                  /\ pc[p] \in {"egress", "ingress", "complete", "done"}
                  /\ (Done(p) /\ ~Faulted(p)) =>
                        /\ result[p].success
                        /\ CallsOf(p, "create_ingress") # {}
                        /\ cfg[p].egress_whitelist # None =>
                              CallsOf(p, "create_egress") # {}

C8_InitWaitCeiling ==
    /\ []C8_CeilingKept
    /\ \A p \in Procs : (pc[p] = "poll") ~> Done(p)

\* A call that polled at 0 s and at 298 s, met the ceiling and succeeded.
C8_Witness ==
    \E p \in Procs :
        /\ waitEnd[p] = "timeout"
        /\ Succeeded(p)
        /\ Cardinality(CallsOf(p, "list_pods")) = 2

(***************************************************************************)
(* C9.  The step in which the workload create is answered 409 returns      *)
(* success = false with error `Sandbox <name> already exists`, changes     *)
(* nothing in the cluster (the existing workload, the policies and the     *)
(* secret stay as they are), and is the last step of the call: no cluster  *)
(* call follows it.                                                        *)
(***************************************************************************)
ConflictStep(p) ==
    /\ pc[p] = "deploy"
    /\ trace'[p] # trace[p]
    /\ Last(trace'[p]).what = "create_deployment"
    /\ Last(trace'[p]).how = "409"

C9_WorkloadConflict ==
    [][\A p \in Procs :
          /\ ConflictStep(p) =>
                /\ pc'[p] = "done"
                /\ result'[p] = Failure(<<"Sandbox ", cfg[p].name, " already exists">>)
                /\ trace'[p] = Append(trace[p], Last(trace'[p]))
                /\ UNCHANGED clusterVars
          /\ pc[p] = "done" =>
                UNCHANGED <<pc[p], trace[p], result[p]>>]_vars

\* The conflict came after the call had created its secret, which is kept.
C9_Witness ==
    \E p \in Procs :
        /\ Done(p)
        /\ trace[p] # <<>>
        /\ Last(trace[p]).what = "create_deployment" /\ Last(trace[p]).how = "409"
        /\ \E o \in secrets : o.by = p

(***************************************************************************)
(* C10.  A create that has returned failure issued no delete call, and     *)
(* every object it had created is still in the cluster (no other actor     *)
(* deletes in this specification).                                         *)
(***************************************************************************)
StoreOf(op) ==
    CASE op = "create_secret" -> secrets
      [] op = "create_deployment" -> deployments
      [] op = "create_egress" -> egressPols
      [] op = "create_ingress" -> ingressPols

CreateOps == {"create_secret", "create_deployment", "create_egress", "create_ingress"}

ObjNameOf(op, name) ==
    CASE op = "create_secret" -> <<name, "-env">>
      [] op = "create_deployment" -> name
      [] op = "create_egress" -> <<name, "-netpol">>
      [] op = "create_ingress" -> <<name, "-deny-ingress">>

C10_NoRollbackOnFailure ==
    \A p \in Procs :
        Failed(p) =>
            /\ \A i \in 1..Len(trace[p]) :
                  IsCall(trace[p][i]) =>
                      trace[p][i].what \in CreateOps \cup {"list_pods"}
            /\ \A op \in CreateOps :
                  (\E i \in CallsOf(p, op) : trace[p][i].how = "created") =>
                      \E o \in StoreOf(op) :
                          o.by = p /\ o.name = ObjNameOf(op, cfg[p].name)

\* The ingress-deny create failed after secret, workload and egress policy
\* had been created: all three are still there.
C10_Witness ==
    \E p \in Procs :
        /\ Failed(p)
        /\ \E i \in CallsOf(p, "create_ingress") : trace[p][i].how = "error"
        /\ \A op \in {"create_secret", "create_deployment", "create_egress"} :
              /\ \E i \in CallsOf(p, op) : trace[p][i].how = "created"
              /\ \E o \in StoreOf(op) : o.by = p

(***************************************************************************)
(* Reading the calls of a client of delete_sandbox.                        *)
(***************************************************************************)
\* The entries of the call of p that ended at index r of its trace.
CallEndedAt(p, r) ==
    LET before == {i \in Returns(p) : i < r}
        start == IF before = {} THEN 0
                 ELSE CHOOSE i \in before : \A j \in before : j <= i
    IN  SubSeq(trace[p], start + 1, r - 1)

DeleteOps == <<"delete_deployment", "delete_secret", "delete_egress", "delete_ingress">>

\* Every answer p got so far was `deleted` or 404.
OnlyNotFound(p) ==
    \A i \in 1..Len(trace[p]) :
        IsCall(trace[p][i]) => trace[p][i].how \in {"deleted", "404"}

NoObjectOf(name) ==
    /\ ~Exists(deployments, name)
    /\ ~Exists(secrets, SecretName(name))
    /\ ~Exists(egressPols, EgressName(name))
    /\ ~Exists(ingressPols, IngressName(name))

(***************************************************************************)
(* C11.  A client that calls delete_sandbox(name) several times in         *)
(* succession, from a cluster that holds any subset of the four objects,   *)
(* and that gets no answer other than `deleted` and 404, gets success      *)
(* every time: no call raises, none returns failure, and all of its calls  *)
(* return.                                                                 *)
(***************************************************************************)
C11_DeleteIdempotent ==
    \A p \in Procs :
        OnlyNotFound(p) =>
            /\ pc[p] # "raised"
            /\ \A r \in Returns(p) : trace[p][r].how = "success"
            /\ pc[p] = "done" =>
                  /\ Cardinality(Returns(p)) = cfg[p].times
                  /\ result[p].success

\* Two successes in a row: the first call found the workload and the secret
\* but not the policies, the second found nothing.
C11_Witness ==
    \E p \in Procs :
        /\ pc[p] = "done"
        /\ OnlyNotFound(p)
        /\ Cardinality(Returns(p)) >= 2
        /\ \A r \in Returns(p) : trace[p][r].how = "success"
        /\ [i \in 1..4 |-> trace[p][i].how] = <<"deleted", "deleted", "404", "404">>
        /\ \A i \in 6..9 : trace[p][i].how = "404"

(***************************************************************************)
(* C12.  Once delete_sandbox(name) has returned success and no create for  *)
(* the same name runs next to it, the cluster holds none of the workload   *)
(* <name>, the secret <name>-env, the egress policy <name>-netpol and the  *)
(* ingress policy <name>-deny-ingress.                                     *)
(***************************************************************************)
IsDeleter(p) == "times" \in DOMAIN cfg[p]

DeleteSucceeded(p) ==
    \E r \in Returns(p) :
        trace[p][r].what = "delete_sandbox" /\ trace[p][r].how = "success"

C12_NothingLeftAfterDelete ==
    \A p \in Procs :
        (/\ IsDeleter(p)
         /\ DeleteSucceeded(p)
         /\ \A q \in Procs \ {p} : cfg[q].name # cfg[p].name)
            => NoObjectOf(cfg[p].name)

\* All four objects were there and were deleted, while a create for another
\* name went through.
C12_Witness ==
    \E p \in Procs :
        /\ IsDeleter(p)
        /\ DeleteSucceeded(p)
        /\ \A i \in 1..4 : trace[p][i].how = "deleted"
        /\ \A q \in Procs \ {p} : cfg[q].name # cfg[p].name /\ Succeeded(q)
        /\ NoObjectOf(cfg[p].name)

(***************************************************************************)
(* C13.  Every call of delete_sandbox that returns has issued the four     *)
(* deletes, in the order workload, secret, egress policy, ingress-deny     *)
(* policy, whatever API status each of them got, and it returns success    *)
(* exactly when none of the four was answered with an API error other      *)
(* than 404.                                                               *)
(***************************************************************************)
C13_AllFourDeletesAttempted ==
    \A p \in Procs :
        \A r \in Returns(p) :
            trace[p][r].how # "raised" =>
                LET made == CallEndedAt(p, r)
                IN  /\ [i \in 1..Len(made) |-> made[i].what] = DeleteOps
                    /\ trace[p][r].how = "success" <=>
                          \A i \in 1..Len(made) : made[i].how # "error"

\* The workload delete got an API error, the three others were made and
\* went through, and the call returned failure.
C13_Witness ==
    \E p \in Procs :
        /\ Len(trace[p]) >= 5
        /\ [i \in 1..5 |-> trace[p][i].how] =
               <<"error", "deleted", "404", "deleted", "failure">>
        /\ ~Exists(secrets, SecretName(cfg[p].name))

(***************************************************************************)
(* C14.  create_sandbox and delete_sandbox never raise: every call ends    *)
(* by returning an OperationResult.                                        *)
(***************************************************************************)
C14_NeverRaises ==
    \A p \in Procs :
        /\ pc[p] # "raised"
        /\ \A r \in Returns(p) : trace[p][r].how # "raised"

(***************************************************************************)
(* C15.  exec_command never raises: whatever step fails (loading the       *)
(* clients, the workload read, the pod listing, the phase check, opening   *)
(* the stream, a turn of the pump loop), the call returns an ExecResult    *)
(* with exit_code 1, empty stdout and the failure's message as stderr;     *)
(* what had been read from the stream before the failure is not in it.     *)
(***************************************************************************)
\* The last thing the call did failed.
ExecFailedAt(e) ==
    \/ e.how \in {"exception", "404", "error"}
    \/ e.what = "list_pods" /\ (e.body = <<>> \/ e.body[1] # "Running")

\* The messages of the failures that come from outside exec_command.
OutsideMessages == {ConfigMessage, GetFailedMessage, TransportMessage}

C15_ExecNeverRaises ==
    \A p \in Procs :
        /\ pc[p] \in {"idle", "exec", "exec_pods", "exec_stream", "pump", "done"}
        /\ (pc[p] = "done" /\ ExecFailedAt(Last(trace[p]))) =>
              /\ result[p].exit_code = 1
              /\ result[p].stdout = <<>>
              /\ result[p].stderr \in
                    OutsideMessages
                    \cup {NotFoundMessage(cfg[p].name), NoPodsMessage(cfg[p].name)}
                    \cup {NotRunningMessage(ph) : ph \in Phases}
        /\ (pc[p] = "done" /\ ~ExecFailedAt(Last(trace[p]))) =>
              /\ result[p].stdout = locals[p].stdout_data
              /\ result[p].stderr = locals[p].stderr_data

\* The pump loop failed after a chunk of stdout had been read.
C15_Witness ==
    \E p \in Procs :
        /\ pc[p] = "done"
        /\ Last(trace[p]).what = "update" /\ Last(trace[p]).how = "exception"
        /\ locals[p].stdout_data # <<>>
        /\ result[p] = ExecResult(1, <<>>, TransportMessage)

(***************************************************************************)
(* C16.  exec_command opens the exec stream only after the workload read   *)
(* succeeded, the pod listing returned at least one pod, and the first     *)
(* pod's phase is Running, in this order.  When the workload is missing,   *)
(* no pod is listed, or the first pod is in another phase, no stream is    *)
(* opened and the result has exit_code 1 and a stderr that names the       *)
(* cause, the observed phase included.                                     *)
(***************************************************************************)
C16_StreamOnlyToRunningPod ==
    \A p \in Procs :
        /\ \A i \in CallsOf(p, "open_stream") :
              /\ i = 3
              /\ trace[p][1].what = "read_deployment" /\ trace[p][1].how = "found"
              /\ trace[p][2].what = "list_pods" /\ trace[p][2].how = "listed"
              /\ trace[p][2].body # <<>>
              /\ trace[p][2].body[1] = "Running"
        /\ (trace[p] # <<>> /\ Last(trace[p]).what = "read_deployment"
                /\ Last(trace[p]).how = "404") =>
              /\ CallsOf(p, "open_stream") = {} /\ pc[p] = "done"
              /\ result[p] = ExecResult(1, <<>>, <<"Sandbox ", cfg[p].name, " not found">>)
        /\ (trace[p] # <<>> /\ Last(trace[p]).what = "list_pods"
                /\ Last(trace[p]).how = "listed" /\ Last(trace[p]).body = <<>>) =>
              /\ CallsOf(p, "open_stream") = {} /\ pc[p] = "done"
              /\ result[p] = ExecResult(1, <<>>,
                                 <<"No pods found for sandbox ", cfg[p].name>>)
        /\ \A i \in CallsOf(p, "list_pods") :
              (trace[p][i].body # <<>> /\ trace[p][i].body[1] # "Running") =>
                  /\ CallsOf(p, "open_stream") = {} /\ pc[p] = "done"
                  /\ result[p] = ExecResult(1, <<>>,
                        <<"Pod is not running (status: ", trace[p][i].body[1], ")">>)

\* The first pod is Pending although the second is Running: no stream.
C16_Witness ==
    \E p \in Procs :
        /\ pc[p] = "done"
        /\ Last(trace[p]).what = "list_pods"
        /\ Last(trace[p]).body = <<"Pending", "Running">>
        /\ result[p].stderr = <<"Pod is not running (status: ", "Pending", ")">>

(***************************************************************************)
(* C17.  Limits validation accepts a value given for cpu, memory or        *)
(* ephemeral-storage if and only if it is a positive integer optionally    *)
(* followed by one of the suffixes m, Ki, Mi, Gi; for every other value    *)
(* create_sandbox returns failure.                                         *)
(***************************************************************************)
QuantitySuffixes == {<<>>, <<"m">>, <<"K", "i">>, <<"M", "i">>, <<"G", "i">>}

IsPositiveInteger(s) ==
    /\ s # <<>>
    /\ \A i \in 1..Len(s) : s[i] \in Digits
    /\ \E i \in 1..Len(s) : s[i] # "0"

InQuantityGrammar(value) ==
    \E suffix \in QuantitySuffixes :
        /\ EndsWith(value, suffix)
        /\ IsPositiveInteger(DropLast(value, Len(suffix)))

\* create_sandbox ended on the limits: the validation said no, or int() raised.
RejectedLimits(p) ==
    /\ pc[p] = "done"
    /\ ~result[p].success
    /\ result[p].error \in {<<"Invalid resource limits">>, <<"invalid literal for int()">>}

C17_LimitsGrammar ==
    \A p \in Procs :
        pc[p] \notin {"start", "idle"} =>
            (~RejectedLimits(p) <=> InQuantityGrammar(cfg[p].limits[1][2]))

(***************************************************************************)
(* C18.  A create_sandbox that fails validation (a limits value that is    *)
(* not positive or not parseable, or an env file that parses to no         *)
(* variable) has issued no cluster call, and the step in which it returns  *)
(* leaves workloads, secrets and network policies as they were.            *)
(***************************************************************************)
ValidationErrors ==
    {<<"Invalid resource limits">>, <<"invalid literal for int()">>,
     <<"env_file is empty or invalid; no variables parsed">>}

FailedValidation(p) == Failed(p) /\ result[p].error \in ValidationErrors

C18_NoCallBeforeValidation ==
    \A p \in Procs :
        FailedValidation(p) =>
            /\ Calls(p) = <<>>
            /\ \A store \in {deployments, secrets, egressPols, ingressPols} :
                  \A o \in store : o.by # p

C18_ValidationFailureMutatesNothing ==
    /\ []C18_NoCallBeforeValidation
    /\ [][\A p \in Procs :
             (pc[p] # "done" /\ pc'[p] = "done" /\ result'[p].error \in ValidationErrors)
                 => UNCHANGED clusterVars]_vars

\* A create failed on an env file of comments only, while the other create
\* had put its objects into the cluster.
C18_Witness ==
    \E p \in Procs :
        /\ FailedValidation(p)
        /\ result[p].error = <<"env_file is empty or invalid; no variables parsed">>
        /\ Calls(p) = <<>>
        /\ \E q \in Procs \ {p} : Succeeded(q)

(***************************************************************************)
(* C19.  The outcome of create_sandbox does not depend on the progress     *)
(* sink.  Two calls with the same spec (up to the name) and any two sinks  *)
(* (none, one that returns, one that raises on every event): when both     *)
(* have returned and the cluster and the clock behaved to the one as to    *)
(* the other as far as it asked, they have issued the same sequence of     *)
(* cluster calls and returned the same result.                             *)
(***************************************************************************)
\* What the call asked of the cluster, the name left out.
Asked(p) ==
    [i \in 1..Len(Calls(p)) |->
        <<Calls(p)[i].what,
          IF Calls(p)[i].what \in {"list_pods", "create_egress"}
          THEN Calls(p)[i].body ELSE <<>> >>]

\* What the cluster and the clock did to the call.
Heard(p) ==
    [i \in 1..Len(Calls(p)) |->
        <<Calls(p)[i].how,
          IF Calls(p)[i].what = "list_pods" THEN Calls(p)[i].body ELSE <<>> >>]

Anonymous(text, name) ==
    [i \in 1..Len(text) |-> IF text[i] = name THEN "<name>" ELSE text[i]]

Outcome(p) ==
    [success |-> result[p].success,
     message |-> Anonymous(result[p].message, cfg[p].name),
     error |-> Anonymous(result[p].error, cfg[p].name)]

ConfigLoaded(p) == result[p].error # <<"Could not load Kubernetes config">>

SameSpec(p, q) == [cfg[p] EXCEPT !.name = "<name>"] = [cfg[q] EXCEPT !.name = "<name>"]

C19_SinkIndependence ==
    \A p, q \in Procs :
        (/\ Done(p) /\ Done(q)
         /\ SameSpec(p, q)
         /\ ConfigLoaded(p) /\ ConfigLoaded(q)
         /\ IsPrefix(Heard(p), Heard(q)))
            => /\ Asked(p) = Asked(q)
               /\ Outcome(p) = Outcome(q)

\* A call whose sink raises and a call whose sink works went through all
\* five kinds of cluster call alike and both returned success.
C19_Witness ==
    \E p, q \in Procs :
        /\ progress_callback[p] = RaisingSink /\ progress_callback[q] = WorkingSink
        /\ Succeeded(p) /\ Succeeded(q)
        /\ Heard(p) = Heard(q)
        /\ Asked(p) = Asked(q)
        /\ \A op \in {"create_secret", "create_deployment", "list_pods",
                      "create_egress", "create_ingress"} : CallsOf(p, op) # {}

(***************************************************************************)
(* C20.  A step of create_sandbox or delete_sandbox for the name n         *)
(* creates, deletes or changes no object other than the workload n, the    *)
(* secret n-env and the policies n-netpol and n-deny-ingress.  So a        *)
(* create and a delete for different names do not interfere, whatever the  *)
(* interleaving: the create is answered as on a cluster that holds         *)
(* nothing of its name (never 409) and returns success unless one of its   *)
(* own calls is answered with an error, and the delete returns success     *)
(* unless one of its own calls is.                                         *)
(***************************************************************************)
\* The objects that do not belong to the sandbox `name`.
ObjectsOfOthers(name) ==
    [deployments |-> {o \in deployments : o.name # name},
     secrets |-> {o \in secrets : o.name # <<name, "-env">>},
     egressPols |-> {o \in egressPols : o.name # <<name, "-netpol">>},
     ingressPols |-> {o \in ingressPols : o.name # <<name, "-deny-ingress">>}]

DistinctNames == \A p, q \in Procs : p # q => cfg[p].name # cfg[q].name

C20_AsIfAlone ==
    DistinctNames =>
        \A p \in Procs :
            /\ ~Got409(p)
            /\ (pc[p] \in {"done", "raised"} /\ ~Faulted(p)) =>
                  /\ result[p].success
                  /\ IsDeleter(p) => \A r \in Returns(p) : trace[p][r].how = "success"

C20_DistinctNamesDoNotInterfere ==
    /\ []C20_AsIfAlone
    /\ [][\A p \in Procs :
             (pc'[p] # pc[p] \/ trace'[p] # trace[p]) =>
                 ObjectsOfOthers(cfg[p].name)' = ObjectsOfOthers(cfg[p].name)]_vars

\* The delete removed the four objects of "a" after the create had begun to
\* put the objects of "b" into the cluster; both returned success.
C20_Witness ==
    /\ DistinctNames
    /\ \E p, q \in Procs :
          /\ IsDeleter(p) /\ result[p].success
          /\ \A i \in 1..4 : trace[p][i].how = "deleted"
          /\ Succeeded(q)
          /\ \E o \in secrets : o.by = q
          /\ \E o \in deployments : o.by = q
          /\ \E o \in egressPols : o.by = q
          /\ \E o \in ingressPols : o.by = q
          /\ ObjectsOfOthers(cfg[q].name).secrets = {}

\* The sandbox was built with a script.
HasScript == Sandbox.before_script # NoScript

\* C21: with a script, the pod is reported Ready and the probe succeeds only
\* when the script has ended with success in the current run of the
\* container, the sentinel file is there only then, and a script that
\* failed leaves no sentinel; without a script no probe of the running
\* container fails.
C21_ReadyOnlyAfterScript ==
    /\ HasScript /\ (container.ready \/ container.probed = "succeeded")
          => container.script = "succeeded"
    /\ HasScript /\ before_done_file \in container.files
          => container.script = "succeeded"
    /\ container.script = "failed" => before_done_file \notin container.files
    /\ ~HasScript /\ container.probed # "never" => container.probed = "succeeded"

\* In a run after its first, the container was probed and reported Ready.
C21_Witness ==
    /\ HasScript
    /\ container.runs > 1
    /\ container.ready
    /\ container.script = "succeeded"

\* The calls whose objects are built.
Built == {p \in Procs : pc[p] = "built"}

\* C22: for every spec, the workload built selects on exactly {app: name},
\* the pod template carries both app=name and katakate.org/sandbox=name, and
\* the egress policy, when one is built, and the ingress-deny policy select
\* pods on exactly {katakate.org/sandbox: name}.
C22_SelectorLabelCoherence ==
    \A p \in Built :
        LET n == cfg[p].name
            m == locals[p]
        IN  /\ m.deployment.selector = {<<"app", n>>}
            /\ {<<"app", n>>, <<"katakate.org/sandbox", n>>}
                   \subseteq m.deployment.template_labels
            /\ m.deployment.selector \subseteq m.deployment.template_labels
            /\ m.network_policy.built
                   => m.network_policy.pod_selector = {<<"katakate.org/sandbox", n>>}
            /\ m.deny_ingress.pod_selector = {<<"katakate.org/sandbox", n>>}

\* The objects of a spec with a whitelist are built, the egress policy among
\* them.
C22_Witness ==
    \E p \in Built : locals[p].network_policy.built /\ cfg[p].name = "b"

\* The capability list the user gave, upper-cased, in the user's order.
Uppercased(l) == [i \in 1..Len(l) |-> [j \in 1..Len(l[i]) |-> Upper(l[i][j])]]

\* C23: the drop list of the container built is ["ALL"] when cap_drop is
\* absent, unset when cap_drop is the empty list, and otherwise the user's
\* list upper-cased in the same order; the add list is cap_add upper-cased,
\* or unset when cap_add is absent or empty.
C23_Capabilities ==
    \A p \in Built :
        LET drop == GetAttr(cfg[p], "cap_drop")
            add == GetAttr(cfg[p], "cap_add")
            caps == locals[p].deployment.capabilities
        IN  /\ ~drop.some => caps.drop = Some(<< <<"A", "L", "L">> >>)
            /\ drop = Some(<<>>) => caps.drop = None
            /\ drop.some /\ drop.list # <<>> => caps.drop = Some(Uppercased(drop.list))
            /\ ~add.some \/ add.list = <<>> => caps.add = None
            /\ add.some /\ add.list # <<>> => caps.add = Some(Uppercased(add.list))

\* A container is built from an empty cap_drop and a cap_add of two names in
\* lower and mixed case.
C23_Witness ==
    \E p \in Built :
        /\ GetAttr(cfg[p], "cap_drop") = Some(<<>>)
        /\ GetAttr(cfg[p], "cap_add") = Some(<< <<"N", "e", "t">>, <<"a", "l", "l">> >>)
        /\ locals[p].deployment.capabilities.add
               = Some(<< <<"N", "E", "T">>, <<"A", "L", "L">> >>)

\* The source loads: its file, if it is a file, is there, and loading it
\* gives the configuration.
Loads(c, source) ==
    /\ source \in ConfigFiles => source \in c.exists
    /\ c.answers[source] = "ok"

\* The sources of the claim, in its order.
ClaimedOrder(c) ==
    (IF c.kubeconfig_path # NoPath THEN <<c.kubeconfig_path>> ELSE <<>>)
        \o <<K3sPath, InCluster>>

\* The first source of the claimed order that loads, or none.
NoSource == "none"
FirstThatLoads(c) ==
    LET order == ClaimedOrder(c)
        ok == {i \in 1..Len(order) : Loads(c, order[i])}
    IN  IF ok = {} THEN NoSource
        ELSE order[CHOOSE i \in ok : \A j \in ok : i <= j]

\* The source the call ended up with, or none when it raised.
UsedSource(p) ==
    IF pc[p] = "done" THEN Last(trace[p]).body[1] ELSE NoSource

\* C24: discovery uses the first of explicit path, k3s path and in-cluster
\* configuration that loads, so the k3s path is tried when the explicit path
\* cannot be loaded, and it fails only when all three fail.
C24_DiscoveryOrder ==
    \A p \in Procs :
        pc[p] \in {"done", "raised"} => UsedSource(p) = FirstThatLoads(cfg[p])

\* The requests that were matched to a route with the key dependency.
IsRequest(p) == pc[p] \in {"request", "verify", "save", "handler", "responded"}
Protected(p) == IsRequest(p) /\ locals[p].route.protected

\* The handler of p's route was entered.
HandlerRan(p) == IsRequest(p) /\ result[p].handler # NoHandler

\* The entries issued for the token p carries.
IssuedFor(p) ==
    {entry \in cfg[p].issued :
        TokenOf(cfg[p]) # <<>> /\ entry.hash = <<"sha256">> \o TokenOf(cfg[p])}

\* The entry's expires is older than the reading t of the clock.
OlderThan(entry, t) == entry.expires.int /\ entry.expires.at < t

\* p read the store in this step.
ReadsStore(p) == pc[p] = "verify" /\ pc'[p] # "verify" /\ TokenOf(cfg[p]) # <<>>

\* The handler of a /api/v1 route runs only for a token whose hash is in the
\* store with an expires not older than the clock reading of the check; a
\* request without a token, with an unknown one or with one that had expired
\* before the request came is answered 401 and enters no handler.
OnlyWithValidKey ==
    \A p \in Procs : IsRequest(p) =>
        /\ pc[p] \in {"verify", "save"} => ~HandlerRan(p)
        /\ Protected(p) /\ HandlerRan(p) =>
               \E entry \in IssuedFor(p) : ~OlderThan(entry, locals[p].now_ts)
        /\ Protected(p) /\ pc[p] = "responded"
             /\ (\A entry \in IssuedFor(p) : OlderThan(entry, StartTime))
               => result[p].status = 401 /\ ~HandlerRan(p)
        /\ pc[p] \in {"handler", "responded"} /\ StartsWith(cfg[p].path, <<"api", "v1">>)
             /\ locals[p].route # NoRoute
               => Protected(p)

\* C25: a request to a /api/v1 endpoint runs its handler only with a token
\* whose hash is a key of the store and whose expires is not older than the
\* current time; a missing, unknown or expired token gets 401 before the
\* handler runs; and a read of the store leaves no expired entry in the file.
C25_KeyRequired ==
    /\ []OnlyWithValidKey
    /\ [][\A p \in Procs : ReadsStore(p) =>
              \A entry \in api_keys' : ~OlderThan(entry, now)]_vars

\* A request with a Bearer token ran its handler after the entry of a key
\* that had expired was purged from the file.
C25_Witness ==
    \E p \in Procs :
        /\ HandlerRan(p)
        /\ Protected(p)
        /\ ~cfg[p].x_api_key.some
        /\ \E entry \in cfg[p].issued : OlderThan(entry, StartTime)
        /\ \A entry \in api_keys : ~OlderThan(entry, StartTime)

\* The authenticated GET requests for /api/v1/sandboxes/metrics that were
\* answered.
MetricsRequests ==
    {p \in Procs :
        /\ pc[p] = "responded"
        /\ cfg[p].method = "GET"
        /\ cfg[p].path = <<"api", "v1", "sandboxes", "metrics">>
        /\ result[p].status # 401}

\* C26: an authenticated GET /api/v1/sandboxes/metrics is answered by the
\* metrics handler with 200, whatever sandboxes exist, and never by the
\* lookup of a single sandbox.
C26_MetricsRoute ==
    \A p \in MetricsRequests :
        result[p].handler = "get_sandbox_metrics" /\ result[p].status = 200

\* The calls of list_sandboxes that returned after a listing the cluster
\* answered.
Listings_ok ==
    {p \in Procs :
        /\ pc[p] = "done"
        /\ "namespace" \in DOMAIN cfg[p]
        /\ trace[p][1].kind = "call" /\ trace[p][1].how = "ok"}

\* The entries of a returned list for one workload.
EntriesFor(list, o) ==
    {i \in 1..Len(list) : list[i].name = o.name /\ list[i].namespace = o.namespace}

\* C27: list_sandboxes(ns) returns exactly one entry for each workload of
\* namespace ns, or of any namespace when ns is omitted, whose runtime class
\* is kata or whose labels contain runtime=kata, and no other entry.
C27_ListFilter ==
    \A p \in Listings_ok :
        /\ \A o \in deployments :
              LET inScope == cfg[p].namespace = "" \/ o.namespace = cfg[p].namespace
                  kata == o.runtime_class_name = "kata"
                            \/ \E l \in o.labels : l = <<"runtime", "kata">>
              IN  Cardinality(EntriesFor(result[p], o))
                      = IF inScope /\ kata THEN 1 ELSE 0
        /\ \A i \in 1..Len(result[p]) :
              \E o \in deployments : i \in EntriesFor(result[p], o)

\* A listing of the namespace default that holds the sandbox by class and
\* the sandbox by label, on a cluster with all four workloads.
C27_Witness ==
    \E p \in Listings_ok :
        /\ cfg[p].namespace = "default"
        /\ Cardinality(deployments) = 4
        /\ {result[p][i].name : i \in 1..Len(result[p])} = {"a", "b"}

\* The pod lookups of p, in order.
PodLookups(p) ==
    SelectSeq(trace[p], LAMBDA e : e.kind = "call" /\ e.what = "list_namespaced_pod")

\* C28: list_sandboxes never raises; a failure of the client or of the
\* workload listing gives the empty list; every pod lookup made has its
\* entry in the list returned, with status Error and ready False where the
\* lookup failed, and no entry has status Error otherwise.
C28_ListNeverRaises ==
    \A p \in Procs : "namespace" \in DOMAIN cfg[p] =>
        /\ pc[p] # "raised"
        /\ pc[p] = "done" /\ trace[p][1].how # "ok" => result[p] = <<>>
        /\ pc[p] = "done" =>
              /\ Len(result[p]) = Len(PodLookups(p))
              /\ \A i \in 1..Len(result[p]) :
                    /\ result[p][i].name = PodLookups(p)[i].body[1]
                    /\ PodLookups(p)[i].how = "exception"
                          <=> result[p][i].status = "Error"
                    /\ result[p][i].status = "Error" => result[p][i].ready = "False"

\* A list of two sandboxes: the lookup failed for the first, the second has
\* no pod.
C28_Witness ==
    \E p \in Procs :
        /\ pc[p] = "done"
        /\ Len(result[p]) = 2
        /\ result[p][1].status = "Error"
        /\ result[p][2].status = "No Pods"

\* The calls of delete_all_sandboxes that ended, after an enumeration the
\* cluster answered.
BulkDeletes ==
    {p \in Procs :
        /\ pc[p] = "done"
        /\ "all_in" \in DOMAIN cfg[p]
        /\ trace[p][1].how = "ok"}

\* The names the enumeration gave.
Enumerated(p) == trace[p][1].body

\* The deletes of workloads p asked for, by name, in order.
WorkloadDeletes(p) ==
    SelectSeq(trace[p], LAMBDA e : e.kind = "call" /\ e.what = "delete_deployment")

\* The calls among p's that belong to the delete of sandbox n and failed.
FailedCalls(p, n) ==
    {i \in 1..Len(trace[p]) :
        /\ trace[p][i].kind = "call"
        /\ trace[p][i].how = "error"
        /\ trace[p][i].body =
               CASE trace[p][i].what = "delete_deployment" -> <<n>>
                 [] trace[p][i].what = "delete_secret" -> <<SecretName(n)>>
                 [] trace[p][i].what = "delete_egress" -> <<EgressName(n)>>
                 [] trace[p][i].what = "delete_ingress" -> <<IngressName(n)>>
                 [] OTHER -> <<>>}

\* C29: a finished delete_all_sandboxes(ns) asked for the delete of every
\* enumerated sandbox exactly once, in the order of the enumeration, and of
\* no workload of another namespace; it reports one item for each
\* enumerated sandbox, an item failing exactly when one of its deletes
\* failed, so the loop went on after a failure; and it returns success if
\* and only if every item succeeded.
C29_DeleteAll ==
    \A p \in BulkDeletes :
        LET names == Enumerated(p)
            data == result[p].data
        IN  /\ Len(WorkloadDeletes(p)) = Len(names)
            /\ \A i \in 1..Len(names) : WorkloadDeletes(p)[i].body = <<names[i]>>
            /\ \A i, j \in 1..Len(names) : names[i] = names[j] => i = j
            /\ Len(data) = Len(names)
            /\ \A i \in 1..Len(names) :
                  /\ data[i].name = names[i]
                  /\ data[i].success <=> FailedCalls(p, names[i]) = {}
            /\ result[p].success <=> \A i \in 1..Len(data) : data[i].success
            /\ \A o \in deployments : o.namespace # cfg[p].all_in =>
                  \A i \in 1..Len(names) : names[i] # o.name

\* A value with the blanks around it, then the double quotes, then the
\* single quotes around it taken off.
Trimmed(value) == StripChar(StripChar(Strip(value), "\""), "'")

\* The map the file of p was written from, its values trimmed.
OriginalMap(p) ==
    {<<cfg[p].env_map[i][1], Trimmed(cfg[p].env_map[i][2])>> :
        i \in 1..Len(cfg[p].env_map)}

\* The file of p was parsed and nothing was found in it.
ParsedNothing(p) ==
    /\ pc[p] = "done"
    /\ result[p].error = <<"env_file is empty or invalid; no variables parsed">>

\* What was parsed from the file of p is the map it was written from.
RoundTrips(p) ==
    /\ ~ParsedNothing(p)
    /\ \A o \in secrets : o.by = p => o.string_data = OriginalMap(p)

\* C30 as claimed: for every map of non-empty keys, the keys that begin
\* with # or contain = among them, parsing the rendered file gives the map
\* back, up to the trimming of values.
C30_RoundTrip ==
    \A p \in Procs : "env_map" \in DOMAIN cfg[p] => RoundTrips(p)

\* A key the parser gives back: not blank at either end, not beginning with
\* #, without =.
PlainKey(key) ==
    /\ key # <<>>
    /\ key[1] \notin {" ", "#"}
    /\ key[Len(key)] # " "
    /\ \A i \in 1..Len(key) : key[i] # "="

\* C30 as it holds: for every map whose keys are non-empty, do not begin
\* with #, hold no = and have no blank at either end, parsing the rendered
\* file gives the map back, up to the trimming of values.
C30_RoundTripPlainKeys ==
    \A p \in Procs : "env_map" \in DOMAIN cfg[p] =>
        ((\A i \in 1..Len(cfg[p].env_map) : PlainKey(cfg[p].env_map[i][1]))
            => RoundTrips(p))

\* The secret of a map of two entries was stored; one of its values is
\* quoted and holds an =.
C30_Witness ==
    \E p \in Procs, o \in secrets :
        /\ "env_map" \in DOMAIN cfg[p]
        /\ o.by = p
        /\ Len(cfg[p].env_map) = 2
        /\ \A i \in 1..2 : PlainKey(cfg[p].env_map[i][1])
        /\ \E i \in 1..2 : cfg[p].env_map[i][2] = <<"\"", "=">>

(***************************************************************************)
(* C31.  exec_command ends once its stream is closed: after one of the     *)
(* ends has closed the stream the pump loop calls resp.update() at most    *)
(* once more, and the call then returns an ExecResult; it does not go on   *)
(* polling a closed stream.                                                *)
(***************************************************************************)
StreamClosed(p) == locals[p].stream = "closed"

\* The calls of resp.update() made since the stream of call p was closed.
PollsAfterClose(p) == Turns(p) - locals[p].turns_at_close

ExecReturned(p) == pc[p] = "done" /\ result[p] # NoExecResult

AtMostOnePollAfterClose ==
    \A p \in Procs : StreamClosed(p) => PollsAfterClose(p) <= 1

SecretCreateIs(p, i, answers) ==
    /\ IsCall(trace[p][i])
    /\ trace[p][i].what = "create_secret"
    /\ trace[p][i].how \in answers

\* Call p went on from its i-th entry to the create of the workload.
WorkloadCreateNext(p, i) ==
    IF i = Len(trace[p]) THEN pc[p] = "deploy"
    ELSE IsCall(trace[p][i + 1]) /\ trace[p][i + 1].what = "create_deployment"

\* Call p ended at its i-th entry without a workload create.
EndedBeforeWorkload(p, i) ==
    /\ Failed(p)
    /\ CallsOf(p, "create_deployment") = {}
    /\ \A j \in (i + 1)..Len(trace[p]) : ~IsCall(trace[p][j])

SecretConflictGoesOn ==
    \A p \in Procs : \A i \in 1..Len(trace[p]) :
        /\ SecretCreateIs(p, i, {"409"}) => WorkloadCreateNext(p, i)
        /\ SecretCreateIs(p, i, {"error", "exception"}) => EndedBeforeWorkload(p, i)

\* The step in which call p gets 409 for its secret.
SecretConflictStep(p) ==
    /\ Len(trace'[p]) > Len(trace[p])
    /\ \E i \in (Len(trace[p]) + 1)..Len(trace'[p]) :
          /\ trace'[p][i].what = "create_secret"
          /\ trace'[p][i].how = "409"

C32_SecretConflictAccepted ==
    /\ []SecretConflictGoesOn
    /\ [][\A p \in Procs : SecretConflictStep(p) => secrets' = secrets]_vars

\* A create that returned success over a secret left by someone else, whose
\* contents are not the variables of the create's own env file.
C32_Witness ==
    \E p \in Procs :
        /\ Succeeded(p)
        /\ \E i \in 1..Len(trace[p]) : SecretCreateIs(p, i, {"409"})
        /\ \E o \in secrets :
              /\ o.name = SecretName(cfg[p].name)
              /\ o.by = Preexisting
              /\ o.string_data # ParseEnv(cfg[p].env_file.lines)

(***************************************************************************)
(* C33.  Whenever the workload a call of create_sandbox created refers to  *)
(* the secret <name>-env as an env-from source, that call issued a create  *)
(* of the secret, answered `created` or 409, before it created the         *)
(* workload; for every env_file, a path that names no file included.       *)
(***************************************************************************)
C33_SecretCreatedBeforeReference ==
    \A o \in deployments :
        (o.by \in Procs /\ o.env_from) =>
            \E i \in CallsOf(o.by, "create_deployment") :
                \E j \in 1..(i - 1) : SecretCreateIs(o.by, j, {"created", "409"})

(***************************************************************************)
(* C34.  In the init-wait of create_sandbox an exception of a pod listing  *)
(* ends the wait at once, with no further listing: before_script.done is   *)
(* emitted next and the call goes on to the egress and ingress policies.   *)
(* Such a call can return success although no listing showed the pod       *)
(* Ready and the 300 seconds have not passed.                              *)
(***************************************************************************)
PollFailed(p, i) ==
    /\ IsCall(trace[p][i])
    /\ trace[p][i].what = "list_pods"
    /\ trace[p][i].how = "exception"

\* The entries of call p from its i-th on are those of a call that left the
\* wait there and went on with the network policies.
WaitLeftAt(p, i) ==
    /\ Len(trace[p]) > i
    /\ trace[p][i + 1] = Event("before_script", "done")
    /\ \A j \in (i + 1)..Len(trace[p]) : trace[p][j].what # "list_pods"
    /\ IF Len(trace[p]) = i + 1 THEN pc[p] = "egress"
       ELSE trace[p][i + 2] \in {Event("network_lockdown", "applying"),
                                 Event("network_lockdown", "skipped")}

C34_PollErrorEndsWait ==
    \A p \in Procs : \A i \in 1..Len(trace[p]) :
        PollFailed(p, i) =>
            /\ trace[p][i].body[1] < TimeoutSeconds
            /\ waitEnd[p] = "exception"
            /\ WaitLeftAt(p, i)

\* A create that returned success after its first listing failed, with both
\* policies created.
C34_Witness ==
    \E p \in Procs :
        /\ Succeeded(p)
        /\ \E i \in CallsOf(p, "list_pods") : PollFailed(p, i)
        /\ Cardinality(CallsOf(p, "list_pods")) = 1
        /\ elapsed[p] < TimeoutSeconds
        /\ CallsOf(p, "create_egress") # {}
        /\ CallsOf(p, "create_ingress") # {}

(***************************************************************************)
(* C35.  A delete_sandbox(name) that runs next to a create_sandbox for the *)
(* same name: in every interleaving, once both have returned and the       *)
(* delete reported success, no derived object is left without its          *)
(* workload: the workload <name> exists, or none of <name>-env,            *)
(* <name>-netpol and <name>-deny-ingress exists.  Checked in the runs in   *)
(* which the cluster answered no call of either with an error, so that     *)
(* what is left is left by the interleaving alone.                         *)
(***************************************************************************)
NoDerivedObjectOf(name) ==
    /\ ~Exists(secrets, SecretName(name))
    /\ ~Exists(egressPols, EgressName(name))
    /\ ~Exists(ingressPols, IngressName(name))

C35_NoOrphanAfterRace ==
    \A d, c \in Procs :
        (/\ IsDeleter(d) /\ ~IsDeleter(c)
         /\ cfg[c].name = cfg[d].name
         /\ Done(d) /\ DeleteSucceeded(d)
         /\ Done(c)
         /\ ~Faulted(d) /\ ~Faulted(c))
            => \/ Exists(deployments, cfg[d].name)
               \/ NoDerivedObjectOf(cfg[d].name)

(***************************************************************************)
(* C36.  Once revoke_api_key has completed for a key, the key is in the    *)
(* key-store file in no later state and no request sent later with it is   *)
(* let through, however the revoke was interleaved with the key checks of  *)
(* the server.                                                             *)
(***************************************************************************)
InStore(name) == \E entry \in api_keys : entry.name = name

\* Request p was sent after a revoke completed and got past verify_api_key.
LetThroughSince(p, name) ==
    /\ ~IsRevoke(p)
    /\ cfg[p].since_revoke
    /\ TokenOf(cfg[p]) = name
    /\ pc[p] \in {"save", "handler"} \/ result[p].handler # NoHandler

C36_RevokeIsFinal ==
    \A r \in Procs :
        Revoked(r) =>
            /\ ~InStore(cfg[r].name)
            /\ \A p \in Procs : ~LetThroughSince(p, cfg[r].name)

(***************************************************************************)
(* C37.  With a sink that works, create_sandbox emits complete.success if  *)
(* and only if it returns success, and it is then the last event emitted.  *)
(* A create that fails because the create of the secret, of the workload   *)
(* or of the egress policy was answered with an API error returns failure  *)
(* without any event of stage `error` or `complete`.                       *)
(***************************************************************************)
CompleteEvents(p) ==
    {i \in 1..Len(trace[p]) : trace[p][i] = Event("complete", "success")}

\* The calls whose API error ends the create with a plain return.
QuietFailures ==
    {<<"create_secret", "error">>, <<"create_deployment", "error">>,
     <<"create_deployment", "409">>, <<"create_egress", "error">>}

\* The create of p ended at a call that was answered with an API error.
FailedAtApiError(p) ==
    /\ Failed(p)
    /\ Calls(p) # <<>>
    /\ <<Last(Calls(p)).what, Last(Calls(p)).how>> \in QuietFailures

C37_CompleteIffSuccess ==
    \A p \in Procs :
        progress_callback[p] = WorkingSink =>
            /\ CompleteEvents(p) # {} <=> Succeeded(p)
            /\ Succeeded(p) => CompleteEvents(p) = {Len(trace[p])}
            /\ FailedAtApiError(p) =>
                  \A i \in 1..Len(trace[p]) :
                      IsEvent(trace[p][i]) =>
                          trace[p][i].what \notin {"error", "complete"}

\* One create returned success with complete.success as its last event; the
\* other failed at the egress policy after emitting `applying`, with no
\* event of stage error.
C37_Witness ==
    \E p, q \in Procs :
        /\ Succeeded(p) /\ Last(trace[p]) = Event("complete", "success")
        /\ FailedAtApiError(q) /\ Last(Calls(q)).what = "create_egress"
        /\ Event("network_lockdown", "applying") \in Range(trace[q])

(***************************************************************************)
(* C38.  delete_sandbox(name) makes no test of whether the workload is a   *)
(* sandbox: its first cluster call is the delete of the workload `name`,   *)
(* and a workload of that name is deleted whether or not it has the kata   *)
(* runtime class or the label runtime=kata.  It can so delete a workload   *)
(* that list_sandboxes would not list.                                     *)
(***************************************************************************)
\* The workload of the name call p deletes, as the cluster held it or not.
Target(p) == CHOOSE o \in LocalWorkloads : o.name = cfg[p].name

WorkloadDeleted(p) ==
    \E i \in CallsOf(p, "delete_deployment") : trace[p][i].how = "deleted"

C38_DeleteWithoutMembershipCheck ==
    \A p \in Procs :
        (IsDeleter(p) /\ trace[p] # <<>>) =>
            /\ trace[p][1].what \in {"delete_deployment", "load_kube_config"}
            /\ trace[p][1].what = "delete_deployment" => trace[p][1].body = <<cfg[p].name>>
            /\ WorkloadDeleted(p) => Target(p) \notin deployments
            /\ ~WorkloadDeleted(p) /\ trace[p][1].how = "404" => Target(p) \notin deployments

\* A workload that is no sandbox was deleted, with its policy, and the call
\* returned success.
C38_Witness ==
    \E p \in Procs :
        /\ IsDeleter(p) /\ DeleteSucceeded(p)
        /\ WorkloadDeleted(p)
        /\ ~IsKata(Target(p))
        /\ Target(p) \notin _get_kata_sandboxes("default")
        /\ \E i \in CallsOf(p, "delete_ingress") : trace[p][i].how = "deleted"

(***************************************************************************)
(* C39.  Every workload create_sandbox creates passes the test that        *)
(* enumerates sandboxes: it has the label runtime=kata and the runtime     *)
(* class kata.  So after a create that returned success, and with no       *)
(* delete in between, list_sandboxes(ns) for the namespace of the create   *)
(* has an entry of that name, and delete_all_sandboxes(ns) deletes the     *)
(* workload; both when the cluster answers their calls without error.      *)
(***************************************************************************)
CreatedByCall(o) == o.by \in Procs

\* The listing of the workloads that call q made was answered.
EnumeratedOk(q, namespace) ==
    \E i \in 1..Len(trace[q]) :
        /\ trace[q][i].what = ListOp(namespace)
        /\ trace[q][i].how = "ok"

\* Call q came after the successful create c, for the namespace of c.
FollowedIn(q, c, namespace) ==
    /\ q # c /\ Succeeded(c) /\ "env_file" \in DOMAIN cfg[c]
    /\ namespace = Namespace(cfg[c])
    /\ Done(q)

C39_CreatedWorkloadIsEnumerated ==
    /\ \A o \in deployments :
          CreatedByCall(o) =>
              /\ <<"runtime", "kata">> \in o.labels
              /\ o.runtime_class_name = "kata"
              /\ IsKata(o)
    /\ \A q, c \in Procs :
          /\ (/\ IsLister(q)
              /\ FollowedIn(q, c, cfg[q].namespace)
              /\ EnumeratedOk(q, cfg[q].namespace))
                => \E i \in 1..Len(result[q]) :
                      /\ result[q][i].name = cfg[c].name
                      /\ result[q][i].namespace = cfg[q].namespace
          /\ (/\ InDeleteAll(q)
              /\ FollowedIn(q, c, cfg[q].all_in)
              /\ ~Faulted(q))
                => /\ ~Exists(deployments, cfg[c].name)
                   /\ \E i \in CallsOf(q, "delete_deployment") :
                         /\ trace[q][i].body = <<cfg[c].name>>
                         /\ trace[q][i].how = "deleted"

\* The bulk delete that followed the create deleted the new sandbox and one
\* that was there before.
C39_Witness ==
    \E q, c \in Procs :
        /\ InDeleteAll(q) /\ FollowedIn(q, c, cfg[q].all_in) /\ ~Faulted(q)
        /\ result[q].success
        /\ Len(result[q].data) = 2
        /\ \E i \in CallsOf(q, "delete_deployment") :
              trace[q][i].body = <<cfg[c].name>> /\ trace[q][i].how = "deleted"

(***************************************************************************)
(* C40.  When `k7 create` runs without a config file and without --egress, *)
(* the SandboxConfig it hands to create_sandbox has the empty list for its *)
(* egress_whitelist, not None: the create does not skip the egress stage   *)
(* but creates the policy <name>-netpol whose only rule is the DNS rule.   *)
(***************************************************************************)
\* The command of p ran on options alone, without --egress, and made a config.
PlainOptions(p) ==
    /\ "args" \in DOMAIN locals[p]
    /\ pc[p] \notin {"cli", "idle"}
    /\ ConfigFile(locals[p].args) = NoFile
    /\ ~Truthy(locals[p].args.egress_whitelist)
    /\ "egress_whitelist" \in DOMAIN cfg[p]
    /\ result[p].error \notin
           {<<"Name and image must be provided via CLI or k7.yaml">>}

EgressCreateIssued(p) ==
    \E i \in CallsOf(p, "create_egress") : trace[p][i].body = <<DnsRule>>

C40_NoEgressOptionBlocksAll ==
    \A p \in Procs :
        PlainOptions(p) =>
            /\ cfg[p].egress_whitelist = Some(<<>>)
            /\ Event("network_lockdown", "skipped") \notin Range(trace[p])
            /\ (pc[p] \in {"ingress", "complete"} \/ Succeeded(p))
                  => EgressCreateIssued(p)

\* The command ran with a name and an image only, and its create returned
\* success with the DNS-only policy in the cluster.
C40_Witness ==
    \E p \in Procs :
        /\ PlainOptions(p) /\ locals[p].args.egress_whitelist = None
        /\ Succeeded(p)
        /\ \E o \in egressPols :
              o.name = EgressName(cfg[p].name) /\ o.by = p /\ o.rules = <<DnsRule>>

====
